---- MODULE Spec2Model ----
(***************************************************************************)
(* Model of the explanation engine of the credit-risk backend and of the   *)
(* memoization cache it uses (backend/app/core/cache.py, explain.py and    *)
(* the training endpoint of backend/app/main.py).                          *)
(*                                                                         *)
(* Python strings are sequences of one-character strings, so that the     *)
(* concatenations of _get_cache_key are computed character by character.   *)
(* Floats are rationals [n, d] or one of the IEEE specials "nan", "inf",   *)
(* "-inf".                                                                 *)
(***************************************************************************)
EXTENDS Integers, Sequences, FiniteSets, TLC

VARIABLES
    now,              \* time.time(), in seconds
    files,            \* CACHE_DIR: path <<digest, extension>> -> content
    last,             \* the last cache-manager call and what it returned
    models,           \* model_manager.models: family -> trained generation
    explainers,       \* ExplainabilityManager.explainers
    background_data,  \* ExplainabilityManager.background_data
    ret,              \* the last engine call and the record it returned
    keyIn,            \* key derivation: the two calls compared
    keyOut,           \* key derivation: their key strings and digests
    calls,            \* concurrent callers of the cache: each one's position
    df,               \* data_manager.df is not None
    feature_configs   \* model_manager.feature_configs: family -> feature list

cacheVars == <<now, files, last>>
engineVars == <<models, explainers, background_data, ret>>
keyVars == <<keyIn, keyOut>>
appVars == <<df, feature_configs>>
vars == <<now, files, last, models, explainers, background_data, ret, keyIn, keyOut, calls,
          df, feature_configs>>

None == "None"

Min(a, b) == IF a <= b THEN a ELSE b

(***************************************************************************)
(* Strings                                                                 *)
(***************************************************************************)

\* The characters used, in code-point order (Python compares str by code point).
CodePoints ==
    <<" ", "'", ",", "0", "1", "2", "3", "4", "5", "6", "7", "8", "9", ":",
      "[", "]", "_", "a", "b", "c", "d", "e", "f", "g", "h", "i", "j", "k",
      "l", "m", "n", "o", "p", "q", "r", "s", "t", "u", "v", "w", "x", "y", "z">>

Ord(c) == CHOOSE i \in DOMAIN CodePoints : CodePoints[i] = c

\* s < t for two Python strings
RECURSIVE StrLess(_, _)
StrLess(s, t) ==
    IF t = <<>> THEN FALSE
    ELSE IF s = <<>> THEN TRUE
    ELSE IF Head(s) = Head(t) THEN StrLess(Tail(s), Tail(t))
    ELSE Ord(Head(s)) < Ord(Head(t))

StartsWith(s, p) == Len(p) <= Len(s) /\ SubSeq(s, 1, Len(p)) = p

Digits == <<"0", "1", "2", "3", "4", "5", "6", "7", "8", "9">>

\* str(n) for a non-negative int
RECURSIVE IntStr(_)
IntStr(n) ==
    IF n < 10 THEN <<Digits[n + 1]>>
    ELSE IntStr(n \div 10) \o <<Digits[(n % 10) + 1]>>

\* sep.join(parts)
RECURSIVE Join(_, _)
Join(sep, parts) ==
    IF parts = <<>> THEN <<>>
    ELSE IF Len(parts) = 1 THEN parts[1]
    ELSE parts[1] \o sep \o Join(sep, Tail(parts))

\* sorted(list of str): stable insertion into an ascending list
RECURSIVE InsertStr(_, _)
InsertStr(x, l) ==
    IF l = <<>> THEN <<x>>
    ELSE IF StrLess(x, Head(l)) THEN <<x>> \o l
    ELSE <<Head(l)>> \o InsertStr(x, Tail(l))

RECURSIVE SortedStrs(_)
SortedStrs(l) ==
    IF l = <<>> THEN <<>>
    ELSE InsertStr(l[Len(l)], SortedStrs(SubSeq(l, 1, Len(l) - 1)))

\* repr(s) of a str without quotes or backslashes
Repr(s) == <<"'">> \o s \o <<"'">>

\* str(l) of a list of str
StrList(l) == <<"[">> \o Join(<<",", " ">>, [i \in DOMAIN l |-> Repr(l[i])]) \o <<"]">>

\* str(v) as an f-string formats a keyword value: an int or a str
IntVal(n) == [t |-> "int", v |-> n]
StrVal(s) == [t |-> "str", v |-> s]
Format(val) == IF val.t = "int" THEN IntStr(val.v) ELSE val.v

(***************************************************************************)
(* CacheManager._get_cache_key                                             *)
(*                                                                         *)
(* kwargs is the keyword dictionary in the caller's order: a sequence of   *)
(* <<name, value>> pairs with distinct names.                              *)
(***************************************************************************)

RECURSIVE InsertItem(_, _)
InsertItem(x, l) ==
    IF l = <<>> THEN <<x>>
    ELSE IF StrLess(x[1], Head(l)[1]) THEN <<x>> \o l
    ELSE <<Head(l)>> \o InsertItem(x, Tail(l))

\* sorted(kwargs.items()): names are distinct, so the name decides the order
SortedItemsUnsorted(kwargs) == kwargs

RECURSIVE SortedItems(_)
SortedItems(kwargs) ==
    IF kwargs = <<>> THEN <<>>
    ELSE InsertItem(kwargs[Len(kwargs)], SortedItems(SubSeq(kwargs, 1, Len(kwargs) - 1)))

\* f"{prefix}_" + "_".join(f"{k}:{v}" for k, v in sorted_items)
KeyStr(prefix, kwargs) ==
    LET items == SortedItems(kwargs)
    IN  prefix \o <<"_">> \o
        Join(<<"_">>, [i \in DOMAIN items |-> items[i][1] \o <<":">> \o Format(items[i][2])])

\* hashlib.md5(key_str.encode()).hexdigest(): the digest is kept symbolic, one
\* digest per key string (digest collisions are outside the model)
Md5(s) == [md5 |-> s]

CacheKey(prefix, kwargs) == Md5(KeyStr(prefix, kwargs))

\* _get_cache_path(cache_key, extension)
CachePath(cache_key, extension) == <<cache_key, extension>>

\* The keyword dictionary as a mapping, whatever the caller's order
ParamSet(kwargs) == {<<kwargs[i][1], kwargs[i][2]>> : i \in DOMAIN kwargs}

(***************************************************************************)
(* CacheManager: the cache directory holds, per digest, a payload file     *)
(* (extension joblib) and a metadata file (extension meta).  A file whose  *)
(* write failed part-way is unreadable: ok = FALSE.                        *)
(***************************************************************************)

CACHE_ENABLED == TRUE
CACHE_TTL == 3600

Joblib == "joblib"
Meta == "meta"

PayloadFile(data) == [ok |-> TRUE, data |-> data, timestamp |-> 0, prefix |-> <<>>, kwargs |-> <<>>]
MetaFile(t, prefix, kwargs) ==
    [ok |-> TRUE, data |-> None, timestamp |-> t, prefix |-> prefix, kwargs |-> kwargs]
Unreadable == [ok |-> FALSE, data |-> None, timestamp |-> 0, prefix |-> <<>>, kwargs |-> <<>>]

Exists(f, path) == path \in DOMAIN f
Unlink(f, paths) == [q \in (DOMAIN f \ paths) |-> f[q]]
Write(f, path, content) == (path :> content) @@ f

Miss == [hit |-> FALSE, data |-> None]
Hit(data) == [hit |-> TRUE, data |-> data]

\* invalidate(prefix, **kwargs)
Invalidate(f, prefix, kwargs) ==
    LET cache_key == CacheKey(prefix, kwargs)
    IN  Unlink(f, {CachePath(cache_key, Joblib), CachePath(cache_key, Meta)})

\* time.time() - meta['timestamp'] > CACHE_TTL
ExpiredOffByOne(t, meta) == t - meta.timestamp >= CACHE_TTL
Expired(t, meta) == t - meta.timestamp > CACHE_TTL

\* The try block of get: the files after it, what it returns, and whether it
\* left the block by an exception
GetTry(f, t, prefix, kwargs) ==
    LET cache_key == CacheKey(prefix, kwargs)
        meta == f[CachePath(cache_key, Meta)]
        payload == f[CachePath(cache_key, Joblib)]
    IN  IF ~meta.ok THEN [files |-> f, res |-> Miss, raised |-> TRUE]
        ELSE IF Expired(t, meta)
            THEN [files |-> Invalidate(f, prefix, kwargs), res |-> Miss, raised |-> FALSE]
        ELSE IF ~payload.ok THEN [files |-> f, res |-> Miss, raised |-> TRUE]
        ELSE [files |-> f, res |-> Hit(payload.data), raised |-> FALSE]

\* except Exception: log and return None (get), log and return (set)
ExceptPropagates(outcome) == outcome
Except(outcome) == [outcome EXCEPT !.res = IF outcome.raised THEN Miss ELSE @, !.raised = FALSE]

\* get(prefix, **kwargs) at time t
Get(f, t, prefix, kwargs) ==
    LET cache_key == CacheKey(prefix, kwargs)
    IN  IF ~CACHE_ENABLED THEN [files |-> f, res |-> Miss, raised |-> FALSE]
        ELSE IF ~Exists(f, CachePath(cache_key, Joblib)) \/ ~Exists(f, CachePath(cache_key, Meta))
            THEN [files |-> f, res |-> Miss, raised |-> FALSE]
        ELSE Except(GetTry(f, t, prefix, kwargs))

\* What can go wrong in the try block of set: joblib.dump fails before or
\* after it has opened (truncated) the payload file, or the metadata write
\* fails before or after open(meta_path, 'w') has truncated the file
Faults == {"none", "dump_open", "dump_write", "meta_open", "meta_write"}

SetTry(f, t, prefix, data, kwargs, fault) ==
    LET cache_key == CacheKey(prefix, kwargs)
        cache_path == CachePath(cache_key, Joblib)
        meta_path == CachePath(cache_key, Meta)
        dumped == Write(f, cache_path, PayloadFile(data))
    IN  CASE fault = "dump_open" -> [files |-> f, res |-> Miss, raised |-> TRUE]
          [] fault = "dump_write" ->
                [files |-> Write(f, cache_path, Unreadable), res |-> Miss, raised |-> TRUE]
          [] fault = "meta_open" -> [files |-> dumped, res |-> Miss, raised |-> TRUE]
          [] fault = "meta_write" ->
                [files |-> Write(dumped, meta_path, Unreadable), res |-> Miss, raised |-> TRUE]
          [] OTHER ->
                [files |-> Write(dumped, meta_path, MetaFile(t, prefix, kwargs)),
                 res |-> Miss, raised |-> FALSE]

\* set(prefix, data, **kwargs) at time t
Set(f, t, prefix, data, kwargs, fault) ==
    IF ~CACHE_ENABLED THEN [files |-> f, res |-> Miss, raised |-> FALSE]
    ELSE Except(SetTry(f, t, prefix, data, kwargs, fault))

\* invalidate_prefix(prefix): every readable metadata file whose recorded
\* prefix is the given one goes, with its payload file; an unreadable
\* metadata file raises inside the loop body and is skipped
PrefixMatches(meta, prefix) == meta.prefix = prefix

InvalidatePrefix(f, prefix) ==
    LET hitKeys == {q[1] : q \in {r \in DOMAIN f : r[2] = Meta /\ f[r].ok /\ PrefixMatches(f[r], prefix)}}
    IN  Unlink(f, {CachePath(k, Meta) : k \in hitKeys} \cup {CachePath(k, Joblib) : k \in hitKeys})

\* clear_all()
ClearAll(f) == Unlink(f, DOMAIN f)

(***************************************************************************)
(* Floats: a rational n/d in lowest terms with d > 0, or nan, inf, -inf    *)
(***************************************************************************)

RECURSIVE Gcd(_, _)
Gcd(a, b) == IF b = 0 THEN a ELSE Gcd(b, a % b)

AbsInt(n) == IF n < 0 THEN -n ELSE n

Fin(n, d) ==
    LET g == Gcd(AbsInt(n), d)
    IN  [k |-> "fin", n |-> n \div g, d |-> d \div g]
NaN == [k |-> "nan", n |-> 0, d |-> 1]
PosInf == [k |-> "inf", n |-> 0, d |-> 1]
NegInf == [k |-> "-inf", n |-> 0, d |-> 1]
Zero == Fin(0, 1)

\* np.isfinite
IsFinite(x) == x.k = "fin"

\* np.abs
Abs(x) ==
    CASE x.k = "fin" -> Fin(AbsInt(x.n), x.d)
      [] x.k = "nan" -> NaN
      [] OTHER -> PosInf

\* x + y
Add(x, y) ==
    CASE x.k = "nan" \/ y.k = "nan" -> NaN
      [] x.k = "fin" /\ y.k = "fin" -> Fin(x.n * y.d + y.n * x.d, x.d * y.d)
      [] x.k = "fin" -> y
      [] y.k = "fin" -> x
      [] x.k = y.k -> x
      [] OTHER -> NaN

\* x / r for an integer r >= 0 (0/0 is nan, x/0 is infinite)
DivInt(x, r) ==
    CASE x.k # "fin" -> x
      [] r = 0 /\ x.n = 0 -> NaN
      [] r = 0 -> IF x.n > 0 THEN PosInf ELSE NegInf
      [] OTHER -> Fin(x.n, x.d * r)

\* x < y as Python compares floats: every comparison with nan is False
Less(x, y) ==
    CASE x.k = "nan" \/ y.k = "nan" -> FALSE
      [] x.k = "fin" /\ y.k = "fin" -> x.n * y.d < y.n * x.d
      [] x.k = "-inf" -> y.k # "-inf"
      [] y.k = "inf" -> x.k # "inf"
      [] OTHER -> FALSE

\* np.nan_to_num(x, nan=0.0, posinf=0.0, neginf=0.0)
NanToNumKeeps(x) == x
NanToNum(x) == IF IsFinite(x) THEN x ELSE Zero

RECURSIVE SumSeq(_)
SumSeq(xs) == IF xs = <<>> THEN Zero ELSE Add(Head(xs), SumSeq(Tail(xs)))

\* A matrix is [rows |-> sequence of rows, ncols |-> number of columns]
Matrix(rows, ncols) == [rows |-> rows, ncols |-> ncols]

\* np.abs(shap_values).mean(axis=0): one mean per column
MeanAbsAxis1(m) ==
    [i \in DOMAIN m.rows |->
        DivInt(SumSeq([j \in 1..m.ncols |-> Abs(m.rows[i][j])]), m.ncols)]

MeanAbs(m) ==
    [j \in 1..m.ncols |->
        DivInt(SumSeq([i \in DOMAIN m.rows |-> Abs(m.rows[i][j])]), Len(m.rows))]

(***************************************************************************)
(* Ordered dictionaries: a sequence of <<key, value>> pairs                *)
(***************************************************************************)

DictKeys(d) == [i \in DOMAIN d |-> d[i][1]]
HasKey(d, key) == \E i \in DOMAIN d : d[i][1] = key

\* d[key] = value: a present key keeps its position
DictSet(d, key, value) ==
    IF HasKey(d, key)
    THEN [i \in DOMAIN d |-> IF d[i][1] = key THEN <<key, value>> ELSE d[i]]
    ELSE Append(d, <<key, value>>)

\* {feat: value for feat, value in zip(features, values)}
RECURSIVE ZipDict(_, _)
ZipDict(features, values) ==
    IF features = <<>> \/ values = <<>> THEN <<>>
    ELSE LET n == Min(Len(features), Len(values))
         IN  DictSet(ZipDict(SubSeq(features, 1, n - 1), SubSeq(values, 1, n - 1)),
                     features[n], values[n])

\* Insertion of an item into a list that is descending by value, behind the
\* items of equal value
RECURSIVE InsertDesc(_, _)
InsertDesc(x, l) ==
    IF l = <<>> THEN <<x>>
    ELSE IF Less(Head(l)[2], x[2]) THEN <<x>> \o l
    ELSE <<Head(l)>> \o InsertDesc(x, Tail(l))

\* dict(sorted(d.items(), key=lambda x: x[1], reverse=True)): a stable sort,
\* so items of equal value keep their order in d
SortedByImportanceUnsorted(d) == d

RECURSIVE SortedByImportance(_)
SortedByImportance(d) ==
    IF d = <<>> THEN <<>>
    ELSE InsertDesc(d[Len(d)], SortedByImportance(SubSeq(d, 1, Len(d) - 1)))

(***************************************************************************)
(* The keyword dictionaries the two engines build for the cache            *)
(***************************************************************************)

S_shap_summary == <<"s", "h", "a", "p", "_", "s", "u", "m", "m", "a", "r", "y">>
S_pdp == <<"p", "d", "p">>
S_model_type == <<"m", "o", "d", "e", "l", "_", "t", "y", "p", "e">>
S_features == <<"f", "e", "a", "t", "u", "r", "e", "s">>
S_n_samples == <<"n", "_", "s", "a", "m", "p", "l", "e", "s">>
S_target_features == <<"t", "a", "r", "g", "e", "t", "_", "f", "e", "a", "t", "u", "r", "e", "s">>

\* sorted(features) as the engines use it in the key
SortedFeaturesUnsorted(features) == features
SortedFeatures(features) == SortedStrs(features)

\* compute_shap_summary: cache_key_params
ShapKeyParams(model_type, features, nrows, max_samples) ==
    << <<S_model_type, StrVal(model_type)>>,
       <<S_features, StrVal(StrList(SortedFeatures(features)))>>,
       <<S_n_samples, IntVal(Min(nrows, max_samples))>> >>

\* compute_pdp: cache_key_params
PdpKeyParams(model_type, features, target_features) ==
    << <<S_model_type, StrVal(model_type)>>,
       <<S_features, StrVal(StrList(SortedFeatures(features)))>>,
       <<S_target_features, StrVal(StrList(SortedFeatures(target_features)))>> >>

(***************************************************************************)
(* Input sets                                                              *)
(***************************************************************************)

MaxTime == 3601

F_a == <<"a">>
F_b == <<"b">>
N_k == <<"k">>
N_m == <<"m">>
M_rf == <<"r", "f">>
M_logistic == <<"l", "o", "g", "i", "s", "t", "i", "c">>
M_xgb == <<"x", "g", "b">>
M_mlp == <<"m", "l", "p">>
M_svm == <<"s", "v", "m">>

\* Direct calls of the cache manager: namespace and keyword dictionary
Call(prefix, kwargs) == [prefix |-> prefix, kwargs |-> kwargs]

CacheCalls ==
    { Call(<<"x">>, << <<N_k, IntVal(1)>>, <<N_m, IntVal(2)>> >>),
      Call(<<"x">>, << <<N_m, IntVal(2)>>, <<N_k, IntVal(1)>> >>),
      Call(<<"x", "y">>, << <<N_k, IntVal(1)>> >>) }

CachePrefixes == {<<"x">>, <<"x", "y">>}
CachePayloads == {"d1", "d2"}
TickSteps == {CACHE_TTL, CACHE_TTL + 1}

MaxRows == 2

\* Calls whose keys are compared: a direct call (namespace, keyword
\* dictionary) or an engine call (family, feature list, target features,
\* rows of the feature matrix, max_samples)
KCall(prefix, kwargs, model_type, features, target_features, rows, max_samples) ==
    [prefix |-> prefix, kwargs |-> kwargs, model_type |-> model_type, features |-> features,
     target_features |-> target_features, rows |-> rows, max_samples |-> max_samples]

RawKwargs ==
    { << <<N_k, StrVal(<<"1">>)>> >>,
      << <<N_k, StrVal(<<"1">>)>>, <<N_m, StrVal(<<"2">>)>> >>,
      << <<N_m, StrVal(<<"2">>)>>, <<N_k, StrVal(<<"1">>)>> >>,
      << <<N_k, StrVal(<<"1", "_", "m", ":", "2">>)>> >>,
      << <<N_m, StrVal(<<"2">>)>> >> }

RawPrefixes == {<<"a">>, <<"a", "_", "k", ":", "1">>}

RawCalls == {KCall(p, kw, <<>>, <<>>, <<>>, 0, 0) : p \in RawPrefixes, kw \in RawKwargs}

FeatureLists == {<<F_a, F_b>>, <<F_b, F_a>>, <<F_a>>}
KeyFamilies == {M_rf, M_logistic}

ShapCalls ==
    {KCall(<<>>, <<>>, m, fs, <<>>, n, ms) :
        m \in KeyFamilies, fs \in FeatureLists, n \in 0..MaxRows, ms \in 1..MaxRows}

PdpCalls ==
    {KCall(<<>>, <<>>, m, fs, ts, 0, 0) : m \in KeyFamilies, fs \in FeatureLists, ts \in FeatureLists}

KeyInputs ==
    {[kind |-> "raw", a |-> x, b |-> y] : x \in RawCalls, y \in RawCalls}
    \cup {[kind |-> "shap", a |-> x, b |-> y] : x \in ShapCalls, y \in ShapCalls}
    \cup {[kind |-> "pdp", a |-> x, b |-> y] : x \in PdpCalls, y \in PdpCalls}

(***************************************************************************)
(* Initial state                                                           *)
(***************************************************************************)

\* The last call of the cache manager: its arguments, what it returned, whether
\* it raised; a set records whether its writes succeeded and when it ran; a
\* get records the payload of the successful set of the same namespace and
\* parameter set that immediately preceded it (None if there was none) and
\* the time elapsed since that set
NoCall == [op |-> "none", prefix |-> <<>>, kwargs |-> <<>>, data |-> None, ok |-> FALSE,
           hit |-> FALSE, raised |-> FALSE, time |-> 0, after |-> None, age |-> 0]

Record(op, prefix, kwargs, data, ok, hit, raised) ==
    [op |-> op, prefix |-> prefix, kwargs |-> kwargs, data |-> data, ok |-> ok,
     hit |-> hit, raised |-> raised, time |-> 0, after |-> None, age |-> 0]

FollowsSet(c) ==
    /\ last.op = "set"
    /\ last.ok
    /\ last.prefix = c.prefix
    /\ ParamSet(last.kwargs) = ParamSet(c.kwargs)

NoKeyIn == [kind |-> "none", a |-> KCall(<<>>, <<>>, <<>>, <<>>, <<>>, 0, 0),
            b |-> KCall(<<>>, <<>>, <<>>, <<>>, <<>>, 0, 0)]
NoKeyOut == [done |-> FALSE, ka |-> <<>>, kb |-> <<>>, da |-> Md5(<<>>), db |-> Md5(<<>>)]

\* No caller is inside the cache manager
Procs == {"p", "q"}
Idle == [pc |-> "idle", op |-> "none", res |-> "none", raised |-> FALSE, wrote |-> FALSE,
         time |-> 0, len |-> 0]
NoCalls == [p \in Procs |-> Idle]

InitCache == now = 0 /\ files = <<>> /\ last = NoCall /\ calls = NoCalls
NoBackground == [rows |-> 0, cols |-> <<>>, sampled |-> FALSE]
InitEngine == models = <<>> /\ explainers = <<>> /\ background_data = NoBackground /\ ret = None
InitKey == keyIn = NoKeyIn /\ keyOut = NoKeyOut
InitApp == df = FALSE /\ feature_configs = <<>>

(***************************************************************************)
(* The cache manager called directly                                       *)
(***************************************************************************)

CacheGet(c) ==
    LET o == Get(files, now, c.prefix, c.kwargs)
    IN  /\ files' = o.files
        /\ last' = [Record("get", c.prefix, c.kwargs, o.res.data, TRUE, o.res.hit, o.raised)
                        EXCEPT !.after = IF FollowsSet(c) THEN last.data ELSE None,
                               !.age = IF FollowsSet(c) THEN now - last.time ELSE 0]
        /\ UNCHANGED <<now, engineVars, keyVars, calls, appVars>>

CacheSet(c, data, fault) ==
    LET o == Set(files, now, c.prefix, data, c.kwargs, fault)
    IN  /\ files' = o.files
        /\ last' = [Record("set", c.prefix, c.kwargs, data, fault = "none", FALSE, o.raised)
                        EXCEPT !.time = now]
        /\ UNCHANGED <<now, engineVars, keyVars, calls, appVars>>

CacheInvalidate(c) ==
    /\ files' = Invalidate(files, c.prefix, c.kwargs)
    /\ last' = Record("invalidate", c.prefix, c.kwargs, None, TRUE, FALSE, FALSE)
    /\ UNCHANGED <<now, engineVars, keyVars, calls, appVars>>

CacheInvalidatePrefix(p) ==
    /\ files' = InvalidatePrefix(files, p)
    /\ last' = Record("invalidate_prefix", p, <<>>, None, TRUE, FALSE, FALSE)
    /\ UNCHANGED <<now, engineVars, keyVars, calls, appVars>>

CacheClearAll ==
    /\ files' = ClearAll(files)
    /\ last' = Record("clear_all", <<>>, <<>>, None, TRUE, FALSE, FALSE)
    /\ UNCHANGED <<now, engineVars, keyVars, calls, appVars>>

\* The clock advances
Tick(d) ==
    /\ now + d <= MaxTime
    /\ now' = now + d
    /\ UNCHANGED <<files, last, engineVars, keyVars, calls, appVars>>

NextCache ==
    \/ \E c \in CacheCalls : CacheGet(c)
    \/ \E c \in CacheCalls, data \in CachePayloads, fault \in Faults : CacheSet(c, data, fault)
    \/ \E c \in CacheCalls : CacheInvalidate(c)
    \/ \E p \in CachePrefixes : CacheInvalidatePrefix(p)
    \/ CacheClearAll
    \/ \E d \in TickSteps : Tick(d)

InitCacheManager == InitCache /\ InitEngine /\ InitKey /\ InitApp

SpecCache == InitCacheManager /\ [][NextCache]_vars

(***************************************************************************)
(* Claims about the cache manager (checked under SpecCache)                *)
(***************************************************************************)

JoblibPath(c) == CachePath(CacheKey(c.prefix, c.kwargs), Joblib)
MetaPath(c) == CachePath(CacheKey(c.prefix, c.kwargs), Meta)

\* C1: a get that immediately follows a successful set of the same namespace
\* and the same parameter set (given in any order), no later than the TTL
\* after it, returns the payload that set stored.
C1_SetThenGet ==
    (last.op = "get" /\ last.after # None /\ last.age <= CACHE_TTL)
        => (last.hit /\ last.data = last.after)

C1_Witness ==
    /\ last.op = "get"
    /\ last.after = "d2"
    /\ last.age = CACHE_TTL
    /\ last.hit

\* C2: an entry is valid iff now - created_at <= TTL.  A get on an entry whose
\* age exceeds the TTL returns absent and removes its payload and metadata
\* files; a get on a readable entry within the TTL returns its payload and
\* removes nothing; and a file that is absent only comes back by a set of
\* its own key.
C2_ExpiredEntryRemoved ==
    [][ /\ \A c \in CacheCalls :
            (CacheGet(c) /\ Exists(files, JoblibPath(c)) /\ Exists(files, MetaPath(c))
                         /\ files[MetaPath(c)].ok)
            => IF now - files[MetaPath(c)].timestamp > CACHE_TTL
               THEN /\ ~last'.hit
                    /\ ~Exists(files', JoblibPath(c))
                    /\ ~Exists(files', MetaPath(c))
               ELSE /\ files' = files
                    /\ files[JoblibPath(c)].ok
                         => (last'.hit /\ last'.data = files[JoblibPath(c)].data)
        /\ \A path \in DOMAIN files' :
            ~Exists(files, path)
            => (last'.op = "set" /\ path[1] = CacheKey(last'.prefix, last'.kwargs))
      ]_vars

C2_Witness ==
    /\ last.op = "get"
    /\ last.after # None
    /\ last.age > CACHE_TTL
    /\ ~last.hit
    /\ ~Exists(files, CachePath(CacheKey(last.prefix, last.kwargs), Joblib))
    /\ ~Exists(files, CachePath(CacheKey(last.prefix, last.kwargs), Meta))

\* The files of the entries whose recorded namespace starts with p
NamespaceStartsWith(f, p) ==
    LET keys == {q[1] : q \in {r \in DOMAIN f : r[2] = Meta /\ f[r].ok /\ StartsWith(f[r].prefix, p)}}
    IN  {CachePath(k, Meta) : k \in keys} \cup {CachePath(k, Joblib) : k \in keys}

\* C3: invalidate_namespace_prefix(p) removes exactly the stored entries whose
\* recorded namespace starts with p, namespaces strictly longer than p
\* included, and leaves every other entry unchanged.
C3_PrefixRemovesExactly ==
    [][ \A p \in CachePrefixes :
            CacheInvalidatePrefix(p) => files' = Unlink(files, NamespaceStartsWith(files, p))
      ]_vars

\* C7: no cache read or write failure reaches the caller: get and set never
\* raise, and a get on an entry whose metadata or payload is unreadable
\* returns absent.
C7_NoCacheFailureReachesCaller ==
    /\ last.op \in {"get", "set"} => ~last.raised
    /\ \A c \in CacheCalls :
        ( /\ last.op = "get" /\ last.prefix = c.prefix /\ last.kwargs = c.kwargs
          /\ Exists(files, JoblibPath(c)) /\ Exists(files, MetaPath(c))
          /\ (~files[MetaPath(c)].ok \/ ~files[JoblibPath(c)].ok) )
        => ~last.hit

C7_Witness ==
    /\ last.op = "get"
    /\ ~last.hit
    /\ ~last.raised
    /\ \E c \in CacheCalls :
        /\ last.prefix = c.prefix /\ last.kwargs = c.kwargs
        /\ Exists(files, JoblibPath(c)) /\ Exists(files, MetaPath(c))
        /\ files[MetaPath(c)].ok
        /\ ~files[JoblibPath(c)].ok

(***************************************************************************)
(* Key derivation applied to two calls                                     *)
(***************************************************************************)

Keys(ka, kb) == [done |-> TRUE, ka |-> ka, kb |-> kb, da |-> Md5(ka), db |-> Md5(kb)]

\* cache_manager.get(prefix, **kwargs) derives the key of a direct call
DeriveRaw ==
    /\ keyIn.kind = "raw"
    /\ ~keyOut.done
    /\ keyOut' = Keys(KeyStr(keyIn.a.prefix, keyIn.a.kwargs), KeyStr(keyIn.b.prefix, keyIn.b.kwargs))
    /\ UNCHANGED <<keyIn, cacheVars, engineVars, calls, appVars>>

ShapKeyStr(c) ==
    KeyStr(S_shap_summary, ShapKeyParams(c.model_type, c.features, c.rows, c.max_samples))

PdpKeyStr(c) ==
    KeyStr(S_pdp, PdpKeyParams(c.model_type, c.features, c.target_features))

\* compute_shap_summary derives the key of its cache lookup
DeriveShap ==
    /\ keyIn.kind = "shap"
    /\ ~keyOut.done
    /\ keyOut' = Keys(ShapKeyStr(keyIn.a), ShapKeyStr(keyIn.b))
    /\ UNCHANGED <<keyIn, cacheVars, engineVars, calls, appVars>>

\* compute_pdp derives the key of its cache lookup
DerivePdp ==
    /\ keyIn.kind = "pdp"
    /\ ~keyOut.done
    /\ keyOut' = Keys(PdpKeyStr(keyIn.a), PdpKeyStr(keyIn.b))
    /\ UNCHANGED <<keyIn, cacheVars, engineVars, calls, appVars>>

NextKey == DeriveRaw \/ DeriveShap \/ DerivePdp

InitKeyInputs ==
    /\ InitCache /\ InitEngine /\ InitApp
    /\ keyIn \in KeyInputs /\ keyOut = NoKeyOut

SpecKey == InitKeyInputs /\ [][NextKey]_vars

Count(l, x) == Cardinality({i \in DOMAIN l : l[i] = x})
SameContents(l1, l2) ==
    /\ Len(l1) = Len(l2)
    /\ \A i \in DOMAIN l1 : Count(l1, l1[i]) = Count(l2, l1[i])

\* C5: the cache key does not depend on ordering: the same namespace with the
\* same parameter set in any parameter order gives the same key, and the
\* attribution and dependence engines give the same key for feature lists
\* (and target-feature lists) with the same contents in a different order.
C5_KeyIgnoresOrder ==
    keyOut.done =>
        /\ ( /\ keyIn.kind = "raw"
             /\ keyIn.a.prefix = keyIn.b.prefix
             /\ ParamSet(keyIn.a.kwargs) = ParamSet(keyIn.b.kwargs) )
           => keyOut.da = keyOut.db
        /\ ( /\ keyIn.kind = "shap"
             /\ keyIn.a.model_type = keyIn.b.model_type
             /\ SameContents(keyIn.a.features, keyIn.b.features)
             /\ Min(keyIn.a.rows, keyIn.a.max_samples) = Min(keyIn.b.rows, keyIn.b.max_samples) )
           => keyOut.da = keyOut.db
        /\ ( /\ keyIn.kind = "pdp"
             /\ keyIn.a.model_type = keyIn.b.model_type
             /\ SameContents(keyIn.a.features, keyIn.b.features)
             /\ SameContents(keyIn.a.target_features, keyIn.b.target_features) )
           => keyOut.da = keyOut.db

C5_Witness ==
    /\ keyOut.done
    /\ keyIn.kind = "pdp"
    /\ keyIn.a.model_type = keyIn.b.model_type
    /\ keyIn.a.features = <<F_a, F_b>> /\ keyIn.b.features = <<F_b, F_a>>
    /\ keyIn.a.target_features = <<F_b, F_a>> /\ keyIn.b.target_features = <<F_a, F_b>>
    /\ keyOut.da = keyOut.db

\* C6: two calls that differ in namespace or in parameter set never derive
\* the same key string before hashing.
C6_KeyStringInjective ==
    ( /\ keyOut.done
      /\ keyIn.kind = "raw"
      /\ (keyIn.a.prefix # keyIn.b.prefix \/ ParamSet(keyIn.a.kwargs) # ParamSet(keyIn.b.kwargs)) )
    => keyOut.ka # keyOut.kb

(***************************************************************************)
(* ExplainabilityManager.compute_shap_summary                              *)
(*                                                                         *)
(* The explanation library is the environment: shap_values raises or       *)
(* returns one array, a list of per-class arrays, or a 3-D array, and the  *)
(* explainer reports expected_value as a scalar, a sequence, or not at     *)
(* all.  A feature matrix is known by its row count, its columns and       *)
(* whether it is a drawn subsample; its columns are the feature list of    *)
(* the call.                                                               *)
(***************************************************************************)

SAMPLE_CAP == 100

FeatureMatrix(rows, cols) == [rows |-> rows, cols |-> cols, sampled |-> FALSE]

\* X_train.sample(n=max_samples, random_state=42) if len(X_train) > max_samples
SubsampleKeepsAll(X, max_samples) == X

Subsample(X, max_samples) ==
    IF X.rows > max_samples THEN [rows |-> max_samples, cols |-> X.cols, sampled |-> TRUE]
    ELSE X

\* The rows shap_values is computed for: the sample, its first 100 rows for mlp
EvalRows(model_type, X_sample) ==
    IF model_type = M_mlp THEN Min(SAMPLE_CAP, X_sample.rows) ELSE X_sample.rows

\* The explainer the dispatch on model_type constructs (ValueError otherwise)
ExplainerKind(model_type) ==
    CASE model_type = M_logistic -> "linear"
      [] model_type \in {M_rf, M_xgb} -> "tree"
      [] model_type = M_mlp -> "kernel"
      [] OTHER -> "unknown"

\* An explainer handle: the kind of explainer, the model object it was
\* constructed for and the method that constructed it
Explainer(kind, model, by) == [kind |-> kind, model |-> model, by |-> by]

\* isinstance(shap_values, list): the positive class if there are several
\* classes, else the first; an empty list raises IndexError
SelectClass(sv) ==
    IF sv.kind # "list" THEN [raised |-> FALSE, m |-> sv.classes[1]]
    ELSE IF Len(sv.classes) > 1 THEN [raised |-> FALSE, m |-> sv.classes[2]]
    ELSE IF Len(sv.classes) = 1 THEN [raised |-> FALSE, m |-> sv.classes[1]]
    ELSE [raised |-> TRUE, m |-> Matrix(<<>>, 0)]

\* mean_abs_shap: mean absolute value per column, non-finite values zeroed
MeanAbsShap(m) == [j \in DOMAIN MeanAbs(m) |-> NanToNum(MeanAbs(m)[j])]

\* Lines 43-121: the importance mapping, or an exception
Importance(model_type, features, sv) ==
    LET sel == SelectClass(sv)
        failed == [raised |-> TRUE, fi |-> <<>>, nonfinite |-> FALSE]
    IN  IF ExplainerKind(model_type) = "unknown" THEN failed
        ELSE IF sv.kind = "raise" THEN failed
        ELSE IF sel.raised THEN failed
        ELSE IF sv.kind = "array3d" /\ features # <<>> /\ sel.m.ncols > 0 THEN failed
        ELSE [raised |-> FALSE,
              fi |-> SortedByImportance(ZipDict(features, MeanAbsShap(sel.m))),
              nonfinite |-> \E j \in DOMAIN MeanAbs(sel.m) : ~IsFinite(MeanAbs(sel.m)[j])]

\* Lines 123-135: the scalar base value
RawBaseValue(ev) ==
    IF ~ev.has THEN Zero
    ELSE IF ev.seq THEN (IF ev.vals = <<>> THEN Zero ELSE ev.vals[1])
    ELSE ev.vals[1]

BaseValue(ev) == NanToNum(RawBaseValue(ev))

ShapResult(fi, base) == [feature_importance |-> fi, base_value |-> base]

\* Lines 152-172: the model's feature_importances_ if it has them, else zeros
FallbackIgnoresModel(model, features) ==
    [path |-> "zero",
     result |-> ShapResult(ZipDict(features, [i \in DOMAIN features |-> Zero]), Zero)]

Fallback(model, features) ==
    IF model.has_imps
    THEN [path |-> "structural",
          result |-> ShapResult(
              SortedByImportance(ZipDict(features, [i \in DOMAIN model.imps |-> NanToNum(model.imps[i])])),
              Zero)]
    ELSE [path |-> "zero",
          result |-> ShapResult(ZipDict(features, [i \in DOMAIN features |-> Zero]), Zero)]

\* The cache after an except branch of the engine has returned its failure
\* result: the branch makes no call to cache_manager.set, so the files are
\* as the lookup left them
AfterFailureStored(f, t, prefix, result, params) == Set(f, t, prefix, result, params, "none").files

AfterFailure(f, t, prefix, result, params) == f

\* A model handle as the attribution engine sees it: its family and its
\* feature_importances_ attribute, if it has one
NoModel == [family |-> <<>>, has_imps |-> FALSE, imps |-> <<>>]

\* The last engine call: its arguments, the keyword dictionary of its cache
\* lookup, the path it took, what it returned, and whether the underlying
\* method had produced a non-finite value
NoRet == [op |-> "none", model_type |-> <<>>, features |-> <<>>, params |-> <<>>,
          path |-> "none", result |-> ShapResult(<<>>, Zero), nonfinite |-> FALSE,
          raised |-> FALSE, model |-> NoModel, X_train |-> NoBackground]

ShapRet(model_type, X_train, features, params, path, result, nonfinite) ==
    [op |-> "shap_summary", model_type |-> model_type, features |-> features, params |-> params,
     path |-> path, result |-> result, nonfinite |-> nonfinite, raised |-> FALSE,
     model |-> NoModel, X_train |-> X_train]

\* model_manager.models.get(model_type): the generation of the family's
\* model, 0 while none has been trained
GetModel(ms, model_type) == IF model_type \in DOMAIN ms THEN ms[model_type] ELSE 0

\* Bounded environment of the engine
ShapCells == {Fin(-1, 1), NaN}
ImpValues == {Fin(1, 1), NaN}
EngineFamilies == {M_rf, M_svm}
EngineFeatureLists == {<<F_a, F_b>>, <<F_b, F_a>>}
EngineMaxSamples == {1}
EngineFaults == {"none", "meta_write"}
EngineTickSteps == {CACHE_TTL + 1}

MatricesOf(cells, nrows, ncols) ==
    {Matrix(r, ncols) : r \in [1..nrows -> [1..ncols -> cells]]}

InfMatrix(nrows, ncols) == Matrix([i \in 1..nrows |-> [j \in 1..ncols |-> NegInf]], ncols)

\* What explainer.shap_values does: it raises, or returns an array, a list of
\* per-class arrays (possibly empty) or a 3-D array
SvOutcomesOf(cells, nrows, ncols) ==
    {[kind |-> "raise", classes |-> <<>>], [kind |-> "list", classes |-> <<>>]}
    \cup {[kind |-> "array3d", classes |-> <<InfMatrix(nrows, ncols)>>]}
    \cup {[kind |-> "array", classes |-> <<m>>] : m \in MatricesOf(cells, nrows, ncols)}
    \cup {[kind |-> "list", classes |-> <<m>>] : m \in MatricesOf(cells, nrows, ncols)}
    \cup {[kind |-> "list", classes |-> <<InfMatrix(nrows, ncols), m>>] :
                m \in MatricesOf(cells, nrows, ncols)}

EvOutcomes ==
    { [has |-> FALSE, seq |-> FALSE, vals |-> <<>>],
      [has |-> TRUE, seq |-> FALSE, vals |-> <<NaN>>],
      [has |-> TRUE, seq |-> TRUE, vals |-> <<>>],
      [has |-> TRUE, seq |-> TRUE, vals |-> <<Fin(3, 1), PosInf>>] }

ModelHandlesOf(imps, model_type, features) ==
    {[family |-> model_type, has_imps |-> FALSE, imps |-> <<>>]}
    \cup (IF ExplainerKind(model_type) = "tree"
          THEN {[family |-> model_type, has_imps |-> TRUE, imps |-> v] :
                    v \in [1..Len(features) -> imps]}
          ELSE {})

\* The environment of the attribution engine under Spec
EngineEnv == [cells |-> ShapCells, imps |-> ImpValues, evs |-> EvOutcomes, faults |-> EngineFaults]

\* compute_shap_summary(model_type, model, X_train, features, max_samples);
\* the model object is known by its generation, its attributes are drawn
\* from the environment when the fallback reads them
ComputeShapSummary(env, model_type, model, X_train, features, max_samples) ==
    \E params \in {ShapKeyParams(model_type, features, X_train.rows, max_samples)} :
    \E cached \in {Get(files, now, S_shap_summary, params)} :
    \E X_sample \in {Subsample(X_train, max_samples)} :
        \/ /\ cached.res.hit
           /\ files' = cached.files
           /\ ret' = ShapRet(model_type, X_train, features, params, "hit", cached.res.data, FALSE)
           /\ UNCHANGED <<explainers, background_data>>
        \/ /\ ~cached.res.hit
           /\ \E sv \in SvOutcomesOf(env.cells, EvalRows(model_type, X_sample), Len(features)) :
              \E imp \in {Importance(model_type, features, sv)} :
                IF imp.raised
                THEN \E attrs \in ModelHandlesOf(env.imps, model_type, features) :
                     \E fb \in {Fallback(attrs, features)} :
                        /\ files' = AfterFailure(cached.files, now, S_shap_summary, fb.result, params)
                        /\ background_data' = X_train
                        /\ ret' = [ShapRet(model_type, X_train, features, params, fb.path, fb.result, FALSE)
                                        EXCEPT !.model = attrs]
                        /\ UNCHANGED explainers
                ELSE \E ev \in env.evs :
                     \E result \in {ShapResult(imp.fi, BaseValue(ev))} :
                     \E fault \in env.faults :
                        /\ files' = Set(cached.files, now, S_shap_summary, result, params, fault).files
                        /\ explainers' = (model_type :> Explainer(ExplainerKind(model_type), model,
                                                                   "shap_summary")) @@ explainers
                        /\ background_data' = X_sample
                        /\ ret' = ShapRet(model_type, X_train, features, params, "computed", result,
                                          imp.nonfinite \/ ~IsFinite(RawBaseValue(ev)))

\* Under Spec the model argument is one object whatever the generation of
\* the family: which model a handle was constructed for is followed under
\* SpecEngine
ShapSummary ==
    \E model_type \in EngineFamilies, features \in EngineFeatureLists,
       rows \in 1..MaxRows, max_samples \in EngineMaxSamples :
        /\ ComputeShapSummary(EngineEnv, model_type, 0,
                              FeatureMatrix(rows, features), features, max_samples)
        /\ UNCHANGED <<now, last, models, keyVars, calls, appVars>>

(***************************************************************************)
(* Retraining: ModelManager.train_model stores the new model, and the      *)
(* training endpoint then invalidates the explanation caches of the family *)
(***************************************************************************)

MaxGen == 1
TrainFamilies == {M_rf}

\* self.models[model_type] = model (models.py): a new generation of the family
StoreModel(ms, model_type) == [ms EXCEPT ![model_type] = @ + 1]

\* self.feature_configs[model_type] = features
StoreFeatures(fc, model_type, features) == (model_type :> features) @@ fc
RetrainFeatures == <<F_a, F_b>>

\* cache_manager.invalidate_prefix(f"shap_summary_{request.model}")
\* cache_manager.invalidate_prefix(f"pdp_{request.model}")
PostTrainInvalidation(f, model_type) ==
    InvalidatePrefix(InvalidatePrefix(f, S_shap_summary \o <<"_">> \o model_type),
                     S_pdp \o <<"_">> \o model_type)

Retrain(model_type) ==
    /\ models[model_type] < MaxGen
    /\ models' = StoreModel(models, model_type)
    /\ files' = PostTrainInvalidation(files, model_type)
    /\ feature_configs' = StoreFeatures(feature_configs, model_type, RetrainFeatures)
    /\ ret' = [NoRet EXCEPT !.op = "train", !.model_type = model_type]
    /\ UNCHANGED <<now, last, explainers, background_data, keyVars, calls, df>>

EngineTick == \E d \in EngineTickSteps : Tick(d)

Next ==
    \/ ShapSummary
    \/ \E model_type \in TrainFamilies : Retrain(model_type)
    \/ EngineTick

Init ==
    /\ InitCache /\ InitKey /\ InitApp
    /\ models = [m \in TrainFamilies |-> 0]
    /\ explainers = <<>>
    /\ background_data = NoBackground
    /\ ret = NoRet

Spec == Init /\ [][Next]_vars

(***************************************************************************)
(* Claims about global attribution and retraining (checked under Spec)     *)
(***************************************************************************)

\* The family recorded in the keyword dictionary of a metadata file
ModelTypeOf(kwargs) ==
    LET i == CHOOSE j \in DOMAIN kwargs : kwargs[j][1] = S_model_type
    IN  kwargs[i][2].v

\* The readable attribution-summary and dependence entries recorded for a family
EntriesOf(f, model_type) ==
    {q \in DOMAIN f :
        /\ q[2] = Meta
        /\ f[q].ok
        /\ f[q].prefix \in {S_shap_summary, S_pdp}
        /\ \E j \in DOMAIN f[q].kwargs : f[q].kwargs[j][1] = S_model_type
        /\ ModelTypeOf(f[q].kwargs) = model_type}

\* C4: once the training operation for a family has run its post-training
\* cache invalidation, the next get of every attribution-summary or
\* dependence entry that was cached for that family returns absent.
C4_RetrainEvicts ==
    ret.op = "train"
        => \A q \in EntriesOf(files, ret.model_type) :
                ~Get(files, now, files[q].prefix, files[q].kwargs).res.hit

Range(l) == {l[i] : i \in DOMAIN l}
Importances(r) == r.result.feature_importance

\* C8: on every path the importance mapping returned by global attribution
\* has exactly one entry for each feature of the requested feature list.
C8_AttributionTotal ==
    ret.op = "shap_summary"
        => /\ Range(DictKeys(Importances(ret))) = Range(ret.features)
           /\ \A i, j \in DOMAIN Importances(ret) :
                Importances(ret)[i][1] = Importances(ret)[j][1] => i = j

C8_Witness ==
    /\ ret.op = "shap_summary"
    /\ ret.path = "hit"
    /\ ret.features = <<F_b, F_a>>
    /\ Range(DictKeys(Importances(ret))) = {F_a, F_b}

\* C9: every importance returned by global attribution is finite and
\* non-negative and the returned base value is finite, on the computed path
\* and on both fallback paths, whatever non-finite values the underlying
\* method produced.
C9_FiniteNonNegative ==
    ret.op = "shap_summary"
        => /\ IsFinite(ret.result.base_value)
           /\ \A i \in DOMAIN Importances(ret) :
                /\ IsFinite(Importances(ret)[i][2])
                /\ ~Less(Importances(ret)[i][2], Zero)

C9_Witness ==
    /\ ret.op = "shap_summary"
    /\ ret.path = "computed"
    /\ ret.nonfinite
    /\ \A i \in DOMAIN Importances(ret) : Importances(ret)[i][2] = Zero
    /\ ret.result.base_value = Zero

Descending(fi) == \A i, j \in DOMAIN fi : i < j => ~Less(fi[i][2], fi[j][2])

Position(l, x) == CHOOSE i \in DOMAIN l : l[i] = x

\* Entries of equal importance appear in the order of the list features
TiesInOrderOf(fi, features) ==
    \A i, j \in DOMAIN fi :
        (i < j /\ fi[i][2] = fi[j][2])
            => Position(features, fi[i][1]) < Position(features, fi[j][1])

\* C10 as stated: the returned mapping is descending by importance and
\* features of equal importance appear in the order of the feature list of
\* the call that receives the result, cache hits included.
C10_TiesInReceiverOrder ==
    ret.op = "shap_summary"
        => /\ Descending(Importances(ret))
           /\ TiesInOrderOf(Importances(ret), ret.features)

\* The payload stored under the key of the last global-attribution call
StoredFor(r) ==
    files[CachePath(CacheKey(S_shap_summary, r.params), Joblib)].data

\* C10 amended: the returned mapping is descending by importance; features
\* of equal importance appear in the order of the feature list of the call
\* that computed the result, and a cache hit returns the stored mapping
\* unchanged, in the order of the call that stored it.
C10_TiesInComputingOrder ==
    ret.op = "shap_summary"
        => /\ Descending(Importances(ret))
           /\ ret.path \in {"computed", "structural", "zero"}
                => TiesInOrderOf(Importances(ret), ret.features)
           /\ ret.path = "hit" => ret.result = StoredFor(ret)

C10_Witness ==
    /\ ret.op = "shap_summary"
    /\ ret.path = "hit"
    /\ ret.features = <<F_b, F_a>>
    /\ DictKeys(Importances(ret)) = <<F_a, F_b>>
    /\ Importances(ret)[1][2] = Importances(ret)[2][2]

(***************************************************************************)
(* The attribution engine on degenerate inputs: an empty feature matrix,   *)
(* a family without an explainer, a failing explanation library            *)
(***************************************************************************)

ExplainFamilies == {M_rf, M_svm}
LocalFamilies == {M_rf, M_mlp, M_svm}
ExplainFeatures == <<F_a, F_b>>
ExplainRows == {0, 1}
ExplainEnv ==
    [cells |-> {Fin(-1, 1)}, imps |-> ImpValues,
     evs |-> {[has |-> FALSE, seq |-> FALSE, vals |-> <<>>],
              [has |-> TRUE, seq |-> TRUE, vals |-> <<Fin(3, 1), PosInf>>]},
     faults |-> {"none"}]

ExplainShapSummary ==
    \E model_type \in ExplainFamilies, rows \in ExplainRows, max_samples \in EngineMaxSamples :
        /\ ComputeShapSummary(ExplainEnv, model_type, GetModel(models, model_type),
                              FeatureMatrix(rows, ExplainFeatures), ExplainFeatures, max_samples)
        /\ UNCHANGED <<now, last, models, keyVars, calls, appVars>>

\* 1 / (1 + np.exp(-x)): kept symbolic for a finite x (a float in [0,1]);
\* exp overflows to inf without raising, and nan propagates
Sigmoid(x) ==
    CASE x.k = "nan" -> NaN
      [] x.k = "inf" -> Fin(1, 1)
      [] x.k = "-inf" -> Zero
      [] OTHER -> [k |-> "sigmoid", n |-> x.n, d |-> x.d]

\* 0.0 <= x <= 1.0
InUnit(x) == x.k = "fin" /\ 0 <= x.n /\ x.n <= x.d

\* Lines 230-248: the contribution vector, or an exception
LocalContributions(sv) ==
    LET sel == SelectClass(sv)
    IN  IF sv.kind = "raise" \/ sel.raised THEN [raised |-> TRUE, v |-> <<>>]
        ELSE [raised |-> FALSE,
              v |-> [j \in DOMAIN sel.m.rows[1] |-> NanToNum(sel.m.rows[1][j])]]

\* Lines 255-266: the base value, as the explainer reports it
LocalBaseValue(ev) == RawBaseValue(ev)

\* Lines 274-277 and 279-281: base value plus contributions, through the
\* sigmoid if that is not within [0,1]
DerivedPrediction(base, v) ==
    LET raw == Add(base, SumSeq(v))
    IN  IF InUnit(raw) THEN raw ELSE Sigmoid(raw)

\* Lines 268-281: the model's own probability if it has predict_proba and
\* the call succeeds, else the derived prediction
Prediction(model, base, v) ==
    IF model.has_proba /\ ~model.proba_raises THEN model.proba
    ELSE DerivedPrediction(base, v)

LocalResult(shap_dict, base, prediction) ==
    [shap_values |-> shap_dict, base_value |-> base, prediction |-> prediction]

\* Lines 294-301: zeros for every feature, base value 0.0, prediction 0.5
LocalFallbackEmpty(features) == LocalResult(<<>>, Zero, Fin(1, 2))

LocalFallback(features) ==
    LocalResult(ZipDict(features, [i \in DOMAIN features |-> Zero]), Zero, Fin(1, 2))

\* Lines 185-225: the handle stored for the family, or a newly constructed one
\* that is stored under the family tag; the construction may raise
NoExplainer == Explainer("none", 0, "none")

GetOrCreateExplainerAlways(handles, model_type, model, constructed) ==
    IF ~constructed
    THEN [raised |-> TRUE, built |-> FALSE, explainer |-> NoExplainer, explainers |-> handles]
    ELSE [raised |-> FALSE, built |-> TRUE,
          explainer |-> Explainer(ExplainerKind(model_type), model.id, "shap_local"),
          explainers |-> (model_type :> Explainer(ExplainerKind(model_type), model.id, "shap_local"))
                            @@ handles]

GetOrCreateExplainer(handles, model_type, model, constructed) ==
    IF model_type \in DOMAIN handles
    THEN [raised |-> FALSE, built |-> FALSE, explainer |-> handles[model_type],
          explainers |-> handles]
    ELSE IF ~constructed
    THEN [raised |-> TRUE, built |-> FALSE, explainer |-> NoExplainer, explainers |-> handles]
    ELSE [raised |-> FALSE, built |-> TRUE,
          explainer |-> Explainer(ExplainerKind(model_type), model.id, "shap_local"),
          explainers |-> (model_type :> Explainer(ExplainerKind(model_type), model.id, "shap_local"))
                            @@ handles]

\* The last local-attribution call: its arguments, the path it took, what it
\* returned, the handle it used and whether it constructed that handle
LocalRet(model_type, features, model, got, path, result, base) ==
    [op |-> "shap_local", model_type |-> model_type, features |-> features, params |-> <<>>,
     path |-> path, result |-> result, nonfinite |-> ~IsFinite(base), raised |-> FALSE,
     model |-> model, explainer |-> got.explainer, built |-> got.built]

\* Bounded environment of local attribution
LocalCells == {Fin(1, 4), NaN}
LocalEvOutcomes ==
    { [has |-> FALSE, seq |-> FALSE, vals |-> <<>>],
      [has |-> TRUE, seq |-> FALSE, vals |-> <<NaN>>],
      [has |-> TRUE, seq |-> FALSE, vals |-> <<NegInf>>],
      [has |-> TRUE, seq |-> TRUE, vals |-> <<Fin(3, 1), Fin(1, 2)>>] }
LocalSvOutcomesOf(cells, ncols) ==
    {[kind |-> "raise", classes |-> <<>>], [kind |-> "list", classes |-> <<>>]}
    \cup {[kind |-> "array", classes |-> <<m>>] : m \in MatricesOf(cells, 1, ncols)}
    \cup {[kind |-> "list", classes |-> <<InfMatrix(1, ncols), m>>] :
                m \in MatricesOf(cells, 1, ncols)}
LocalEnv == [cells |-> LocalCells, evs |-> LocalEvOutcomes]
\* The current model of the family, known by its generation.  A tree model
\* has predict_proba, which may fail on the row; the network (a dictionary of
\* imputer, scaler and model) has none
LocalModels(model_type) ==
    IF ExplainerKind(model_type) = "tree"
    THEN { [family |-> model_type, id |-> GetModel(models, model_type),
            has_proba |-> TRUE, proba_raises |-> TRUE, proba |-> Zero],
           [family |-> model_type, id |-> GetModel(models, model_type),
            has_proba |-> TRUE, proba_raises |-> FALSE, proba |-> Fin(1, 4)] }
    ELSE { [family |-> model_type, id |-> GetModel(models, model_type),
            has_proba |-> FALSE, proba_raises |-> FALSE, proba |-> Zero] }

\* compute_shap_local(model_type, model, row, features)
ComputeShapLocal(env, model_type, model, row, features) ==
    \E stored \in {model_type \in DOMAIN explainers} :
    \E bg \in {IF ~stored /\ background_data = NoBackground THEN row ELSE background_data} :
    \E constructed \in (IF stored THEN {TRUE}
                        ELSE IF ExplainerKind(model_type) = "unknown" THEN {FALSE}
                        ELSE BOOLEAN) :
    \E got \in {GetOrCreateExplainer(explainers, model_type, model, constructed)} :
        /\ background_data' = bg
        /\ explainers' = got.explainers
        /\ IF got.raised
           THEN ret' = LocalRet(model_type, features, model, got, "failed",
                                LocalFallback(features), Zero)
           ELSE \E sv \in LocalSvOutcomesOf(env.cells, Len(features)) :
                \E c \in {LocalContributions(sv)} :
                    IF c.raised
                    THEN ret' = LocalRet(model_type, features, model, got, "failed",
                                         LocalFallback(features), Zero)
                    ELSE \E ev \in env.evs :
                         \E base \in {LocalBaseValue(ev)} :
                            ret' = LocalRet(model_type, features, model, got, "computed",
                                            LocalResult(ZipDict(features, c.v), base,
                                                        Prediction(model, base, c.v)),
                                            base)

ShapLocal ==
    \E model_type \in LocalFamilies :
    \E model \in LocalModels(model_type) :
        /\ ComputeShapLocal(LocalEnv, model_type, model, FeatureMatrix(1, ExplainFeatures),
                            ExplainFeatures)
        /\ UNCHANGED <<cacheVars, models, keyVars, calls, appVars>>

NextExplain ==
    \/ ExplainShapSummary
    \/ ShapLocal

SpecExplain == Init /\ [][NextExplain]_vars

\* C11: global attribution does not raise when the explanation computation
\* fails (an empty feature matrix included): it returns the model's
\* structural importances, sanitized, when the model exposes them, otherwise
\* an importance of zero for every requested feature, with base value 0.0.
C11_FailureFallsBack ==
    ret.op = "shap_summary"
        => /\ ~ret.raised
           /\ ret.path \in {"structural", "zero"}
                => /\ ret.result.base_value = Zero
                   /\ Len(Importances(ret)) = Len(ret.features)
                   /\ \A i \in DOMAIN ret.features :
                        \E k \in DOMAIN Importances(ret) :
                            Importances(ret)[k] =
                                <<ret.features[i],
                                  IF ret.model.has_imps
                                  THEN (IF IsFinite(ret.model.imps[i]) THEN ret.model.imps[i] ELSE Zero)
                                  ELSE Zero>>

C11_Witness ==
    /\ ret.op = "shap_summary"
    /\ ret.path = "structural"
    /\ background_data.rows = 0
    /\ \E k \in DOMAIN Importances(ret) : Importances(ret)[k][2] # Zero

\* C12: global and local attribution called with a family tag outside the
\* supported set surface an error to the caller and return no result record.
C12_UnsupportedFamilyRejected ==
    (ret.op \in {"shap_summary", "shap_local"} /\ ExplainerKind(ret.model_type) = "unknown")
        => ret.raised

\* C13: local attribution never raises; when explainer construction, the
\* attribution computation or the normalization of its result fails, it
\* returns a contribution of zero for every requested feature, base value
\* 0.0 and prediction 0.5.
C13_LocalFailureDefaults ==
    ret.op = "shap_local"
        => /\ ~ret.raised
           /\ ret.path = "failed"
                => /\ ret.result.base_value = Zero
                   /\ ret.result.prediction = Fin(1, 2)
                   /\ DictKeys(ret.result.shap_values) = ret.features
                   /\ \A i \in DOMAIN ret.result.shap_values :
                        ret.result.shap_values[i][2] = Zero

C13_Witness ==
    /\ ret.op = "shap_local"
    /\ ret.path = "failed"
    /\ ret.model_type = M_rf
    /\ M_rf \in DOMAIN explainers
    /\ Len(ret.result.shap_values) = 2

\* C14: the prediction returned by local attribution lies in [0,1] for every
\* base value and contribution vector the explainer can report.
C14_PredictionInUnit ==
    ret.op = "shap_local"
        => \/ InUnit(ret.result.prediction)
           \/ ret.result.prediction.k = "sigmoid"

(***************************************************************************)
(* ExplainabilityManager.compute_pdp                                       *)
(*                                                                         *)
(* partial_dependence is the environment: for each target feature it       *)
(* raises or returns a curve.  Drawing the sample of at most 1000 rows     *)
(* changes no state and is left to the environment's choice of curve.      *)
(***************************************************************************)

F_c == <<"c">>

Curve(grid, values) == [grid |-> grid, values |-> values]

\* Lines 343-383: the loop over target_features from position i on; a target
\* that is no feature is skipped, an exception leaves the loop
RECURSIVE PdpLoop(_, _, _, _, _)
PdpLoop(features, target_features, outcomes, i, pdp_data) ==
    IF i > Len(target_features) THEN [raised |-> FALSE, pdp_data |-> pdp_data]
    ELSE IF \A k \in DOMAIN features : features[k] # target_features[i]
    THEN PdpLoop(features, target_features, outcomes, i + 1, pdp_data)
    ELSE IF outcomes[i].raises THEN [raised |-> TRUE, pdp_data |-> pdp_data]
    ELSE PdpLoop(features, target_features, outcomes, i + 1,
                 DictSet(pdp_data, target_features[i], outcomes[i].curve))

\* Lines 391-393: return {}
PdpFailurePartial(pdp_data) == pdp_data

PdpFailure(pdp_data) == <<>>

PdpRet(model_type, features, target_features, grid_size, params, path, result, before) ==
    [op |-> "pdp", model_type |-> model_type, features |-> features,
     target_features |-> target_features, grid_size |-> grid_size, params |-> params,
     path |-> path, result |-> result, before |-> before, raised |-> FALSE]

\* partial_dependence(model, X_sample, [feat_idx], kind='average',
\* grid_resolution=grid_size): a grid of grid_size points, or of the distinct
\* values of the feature if these are fewer, and one average per grid point
PartialDependence(grid_size, distinct) ==
    Curve([i \in 1..Min(grid_size, distinct) |-> Fin(i - 1, 1)],
          [i \in 1..Min(grid_size, distinct) |-> Fin(1, 2 * i)])

\* Bounded environment of dependence
PdpFeatures == <<F_a, F_b>>
PdpTargets == {<<>>, <<F_a>>, <<F_a, F_b>>, <<F_b, F_a>>, <<F_c, F_a>>}
PdpGridSizes == {2}
PdpDistinct == {3}
PdpOutcomesOf(grid_size) ==
    {[raises |-> TRUE, curve |-> Curve(<<>>, <<>>)]}
    \cup {[raises |-> FALSE, curve |-> PartialDependence(grid_size, d)] : d \in PdpDistinct}

\* compute_pdp(model_type, model, X_train, features, target_features, grid_size)
ComputePdp(model_type, features, target_features, grid_size) ==
    \E params \in {PdpKeyParams(model_type, features, target_features)} :
    \E cached \in {Get(files, now, S_pdp, params)} :
        \/ /\ cached.res.hit
           /\ files' = cached.files
           /\ ret' = PdpRet(model_type, features, target_features, grid_size, params, "hit",
                            cached.res.data, 0)
        \/ /\ ~cached.res.hit
           /\ \E outcomes \in [DOMAIN target_features -> PdpOutcomesOf(grid_size)] :
              \E loop \in {PdpLoop(features, target_features, outcomes, 1, <<>>)} :
                IF loop.raised
                THEN /\ files' = AfterFailure(cached.files, now, S_pdp,
                                              PdpFailure(loop.pdp_data), params)
                     /\ ret' = PdpRet(model_type, features, target_features, grid_size, params,
                                      "failed",
                                      PdpFailure(loop.pdp_data), Len(loop.pdp_data))
                ELSE \E fault \in EngineFaults :
                     /\ files' = Set(cached.files, now, S_pdp, loop.pdp_data, params, fault).files
                     /\ ret' = PdpRet(model_type, features, target_features, grid_size, params,
                                      "computed",
                                      loop.pdp_data, Len(loop.pdp_data))

Pdp ==
    \E model_type \in TrainFamilies, target_features \in PdpTargets, grid_size \in PdpGridSizes :
        /\ ComputePdp(model_type, PdpFeatures, target_features, grid_size)
        /\ UNCHANGED <<now, last, models, explainers, background_data, keyVars, calls, appVars>>

NextPdp ==
    \/ Pdp
    \/ EngineTick

SpecPdp == Init /\ [][NextPdp]_vars

\* C15: if computing the curve of any requested target feature fails,
\* dependence returns the empty mapping without raising, without the curves
\* of the target features computed before the failure.
C15_PdpAllOrNothing ==
    (ret.op = "pdp" /\ ret.path = "failed")
        => /\ ~ret.raised
           /\ ret.result = <<>>

C15_Witness ==
    /\ ret.op = "pdp"
    /\ ret.path = "failed"
    /\ ret.target_features = <<F_a, F_b>>
    /\ ret.before = 1

(***************************************************************************)
(* TraceManager.trace_logistic_forward                                     *)
(*                                                                         *)
(* A row is a mapping from column names to values; the classifier is known *)
(* by its coef_ and intercept_ attributes, which it has once fitted.       *)
(***************************************************************************)

\* x * y
Mul(x, y) ==
    CASE x.k = "nan" \/ y.k = "nan" -> NaN
      [] x.k = "fin" /\ y.k = "fin" -> Fin(x.n * y.n, x.d * y.d)
      [] (x.k = "fin" /\ x.n = 0) \/ (y.k = "fin" /\ y.n = 0) -> NaN
      [] OTHER ->
            LET neg(v) == v.k = "-inf" \/ (v.k = "fin" /\ v.n < 0)
            IN  IF neg(x) = neg(y) THEN PosInf ELSE NegInf

\* row[features].values[0]: KeyError if a feature is no column of the row
RowValues(row, features) ==
    IF \E i \in DOMAIN features : ~HasKey(row, features[i])
    THEN [raised |-> TRUE, x |-> <<>>]
    ELSE [raised |-> FALSE,
          x |-> [i \in DOMAIN features |->
                    row[CHOOSE k \in DOMAIN row : row[k][1] = features[i]][2]]]

\* weighted = x * coef
Weighted(x, coef) == [i \in DOMAIN x |-> Mul(x[i], coef[i])]

\* z = np.sum(weighted) + intercept
LogitNoIntercept(weighted, intercept) == SumSeq(weighted)

Logit(weighted, intercept) == Add(SumSeq(weighted), intercept)

\* {feat: float(x[i] * coef[i]) for i, feat in enumerate(features)}
FeatureContributions(features, x, coef) ==
    ZipDict(features, [i \in DOMAIN features |-> Mul(x[i], coef[i])])

LinearLayer(coef, intercept, z, proba, contributions) ==
    [type |-> "linear", W |-> <<coef>>, b |-> <<intercept>>, z |-> <<z>>, a |-> <<proba>>,
     feature_contributions |-> contributions]

ForwardResult(layers, logit, proba) == [layers |-> layers, logit |-> logit, proba |-> proba]

\* Lines 60-66: no layers, logit 0.0, proba 0.5
ForwardFallback == ForwardResult(<<>>, Zero, Fin(1, 2))

\* trace_logistic_forward(model, row, features)
TraceLogisticForward(model, row, features) ==
    LET rv == RowValues(row, features)
        z == Logit(Weighted(rv.x, model.coef), model.intercept)
    IN  IF ~model.has_coef \/ rv.raised \/ Len(model.coef) # Len(features)
        THEN [path |-> "failed", result |-> ForwardFallback]
        ELSE [path |-> "computed",
              result |-> ForwardResult(
                  <<LinearLayer(model.coef, model.intercept, z, Sigmoid(z),
                                FeatureContributions(features, rv.x, model.coef))>>,
                  z, Sigmoid(z))]

TraceRet(op, model, row, features, out) ==
    [op |-> op, model |-> model, row |-> row, features |-> features,
     path |-> out.path, result |-> out.result, raised |-> FALSE]

\* Bounded inputs of the linear forward trace
TraceFeatures == <<F_a, F_b>>
TraceValues == {Zero, Fin(1, 2), Fin(-2, 1)}
TraceRows ==
    {<< <<F_a, va>>, <<F_b, vb>> >> : va \in TraceValues, vb \in TraceValues}
    \cup {<< <<F_a, Zero>> >>}
LinearModels ==
    {[has_coef |-> TRUE, coef |-> <<ca, cb>>, intercept |-> b] :
        ca \in {Fin(3, 1), Fin(-1, 2)}, cb \in {Fin(3, 1), Fin(-1, 2)},
        b \in {Fin(1, 4), Fin(-1, 1)}}
    \cup {[has_coef |-> FALSE, coef |-> <<>>, intercept |-> Zero]}

TraceLogistic ==
    /\ \E model \in LinearModels, row \in TraceRows :
            ret' = TraceRet("trace_logistic", model, row, TraceFeatures,
                            TraceLogisticForward(model, row, TraceFeatures))
    /\ UNCHANGED <<cacheVars, models, explainers, background_data, keyVars, calls, appVars>>

(***************************************************************************)
(* TraceManager.trace_tree_path                                            *)
(*                                                                         *)
(* tree_ holds the arrays of the library: children_left, children_right,   *)
(* feature (-2 at a leaf), threshold, impurity and the class counts,       *)
(* indexed by node id from 0; nodes are numbered depth first, so the left  *)
(* child of node n is n + 1.  decision_path and apply are the library's:   *)
(* they cast the row to 32-bit floats and go left where the cast value is  *)
(* <= the 64-bit threshold.  Here the 32-bit floats are the integers and   *)
(* the 64-bit floats the multiples of 1/2.                                 *)
(***************************************************************************)

TREE_LEAF == -2

At(arr, node_id) == arr[node_id + 1]

\* x <= y as Python compares floats
Leq(x, y) == x.k # "nan" /\ y.k # "nan" /\ ~Less(y, x)

\* The cast of a 64-bit value to 32 bits: to the nearest, ties to even
F32(x) ==
    IF x.k # "fin" \/ x.d = 1 THEN x
    ELSE LET lo == (x.n - 1) \div 2
         IN  IF lo % 2 = 0 THEN Fin(lo, 1) ELSE Fin(lo + 1, 1)

\* tree.apply(X)[0]: the leaf the library's own routine reaches from node_id
RECURSIVE TreeApply(_, _, _)
TreeApply(t, X, node_id) ==
    IF At(t.feature, node_id) = TREE_LEAF THEN node_id
    ELSE IF Leq(F32(X[At(t.feature, node_id) + 1]), At(t.threshold, node_id))
    THEN TreeApply(t, X, At(t.children_left, node_id))
    ELSE TreeApply(t, X, At(t.children_right, node_id))

\* tree.decision_path(X).toarray()[0]: which nodes the row visits
RECURSIVE Visited(_, _, _)
Visited(t, X, node_id) ==
    IF At(t.feature, node_id) = TREE_LEAF THEN {node_id}
    ELSE IF Leq(F32(X[At(t.feature, node_id) + 1]), At(t.threshold, node_id))
    THEN {node_id} \cup Visited(t, X, At(t.children_left, node_id))
    ELSE {node_id} \cup Visited(t, X, At(t.children_right, node_id))

DecisionPath(t, X) == [i \in 1..Len(t.feature) |-> (i - 1) \in Visited(t, X, 0)]

\* Lines 198-205: the direction recorded for an internal node of the path
Direction(t, X, node_indicator, node_id) ==
    IF node_id + 1 < Len(node_indicator) /\ At(node_indicator, node_id + 1)
    THEN (IF At(t.children_left, node_id) = node_id + 1 THEN "left" ELSE "right")
    ELSE (IF Leq(X[At(t.feature, node_id) + 1], At(t.threshold, node_id))
          THEN "left" ELSE "right")

\* Lines 207-228: the record of a node of the path
PathNode(t, X, features, node_indicator, node_id) ==
    IF At(t.feature, node_id) # TREE_LEAF
    THEN [feature |-> features[At(t.feature, node_id) + 1],
          threshold |-> At(t.threshold, node_id),
          sample_value |-> X[At(t.feature, node_id) + 1],
          direction |-> Direction(t, X, node_indicator, node_id),
          impurity |-> At(t.impurity, node_id),
          leaf_value |-> None, is_leaf |-> FALSE]
    ELSE [feature |-> None, threshold |-> None, sample_value |-> None, direction |-> None,
          impurity |-> None,
          leaf_value |-> DivInt(Fin(At(t.value, node_id)[2], 1),
                                At(t.value, node_id)[1] + At(t.value, node_id)[2]),
          is_leaf |-> TRUE]

\* Lines 189-230: the nodes of the path in the order of their ids
RECURSIVE PathNodes(_, _, _, _, _)
PathNodes(t, X, features, node_indicator, node_id) ==
    IF node_id >= Len(node_indicator) THEN <<>>
    ELSE IF At(node_indicator, node_id)
    THEN <<PathNode(t, X, features, node_indicator, node_id)>>
            \o PathNodes(t, X, features, node_indicator, node_id + 1)
    ELSE PathNodes(t, X, features, node_indicator, node_id + 1)

\* Lines 233-241: one synthetic leaf of value 0.5
SyntheticLeaf ==
    [feature |-> None, threshold |-> None, sample_value |-> None, direction |-> None,
     impurity |-> None, leaf_value |-> Fin(1, 2), is_leaf |-> TRUE]

TreePathResult(path_nodes, proba) == [path |-> path_nodes, prediction |-> proba]

\* Lines 257-262: an empty path and prediction 0.5
TreePathFallbackSynthetic == TreePathResult(<<SyntheticLeaf>>, Fin(1, 2))

TreePathFallback == TreePathResult(<<>>, Fin(1, 2))

\* trace_tree_path(model, row, features)
TraceTreePath(model, row, features) ==
    LET rv == RowValues(row, features)
        tree == IF model.has_estimators THEN model.estimators[1] ELSE model.self
        path_nodes ==
            IF ~tree.has_decision_path THEN <<SyntheticLeaf>>
            ELSE IF ~tree.has_tree THEN <<>>
            ELSE PathNodes(tree.tree_, rv.x, features, DecisionPath(tree.tree_, rv.x), 0)
    IN  IF rv.raised THEN [path |-> "failed", result |-> TreePathFallback]
        ELSE IF model.has_estimators /\ model.estimators = <<>>
        THEN [path |-> "failed", result |-> TreePathFallback]
        ELSE IF model.has_proba /\ model.proba_raises
        THEN [path |-> "failed", result |-> TreePathFallback]
        ELSE [path |-> IF tree.has_decision_path THEN "walked" ELSE "synthetic",
              result |-> TreePathResult(path_nodes,
                                        IF model.has_proba THEN model.proba ELSE Fin(1, 2))]

\* Bounded inputs of the decision-path tracer
SplitAt == Fin(3, 2)
NoSplit == Fin(-2, 1)
TreeValues == {Fin(1, 1), Fin(3, 2), Fin(2, 1)}
TreeRows ==
    {<< <<F_a, va>>, <<F_b, vb>> >> : va \in TreeValues, vb \in TreeValues}
    \cup {<< <<F_a, Fin(1, 1)>> >>}

Struct(children_left, children_right, feature) ==
    [children_left |-> children_left, children_right |-> children_right, feature |-> feature,
     threshold |-> [i \in DOMAIN feature |-> IF feature[i] = TREE_LEAF THEN NoSplit ELSE SplitAt],
     impurity |-> [i \in DOMAIN feature |-> IF feature[i] = TREE_LEAF THEN Zero ELSE Fin(1, 2)],
     value |-> [i \in DOMAIN feature |-> <<1, i>>]]

\* Trees numbered depth first: a leaf; a root with two leaves; a root whose
\* left or right child is split again
TreeStructs ==
    {Struct(<<-1>>, <<-1>>, <<TREE_LEAF>>)}
    \cup {Struct(<<1, -1, -1>>, <<2, -1, -1>>, <<f, TREE_LEAF, TREE_LEAF>>) : f \in {0, 1}}
    \cup {Struct(<<1, 2, -1, -1, -1>>, <<4, 3, -1, -1, -1>>,
                  <<f, g, TREE_LEAF, TREE_LEAF, TREE_LEAF>>) : f \in {0, 1}, g \in {0, 1}}
    \cup {Struct(<<1, -1, 3, -1, -1>>, <<2, -1, 4, -1, -1>>,
                  <<f, TREE_LEAF, g, TREE_LEAF, TREE_LEAF>>) : f \in {0, 1}, g \in {0, 1}}

NoStruct == Struct(<<>>, <<>>, <<>>)
TreeObject(t) == [has_decision_path |-> TRUE, has_tree |-> TRUE, tree_ |-> t]
NoTreeObject == [has_decision_path |-> FALSE, has_tree |-> FALSE, tree_ |-> NoStruct]

\* A forest of one tree; a forest without members; a boosting model, which
\* has neither estimators_ nor decision_path; a model without predict_proba;
\* a model whose predict_proba fails
TreeModels ==
    {[has_estimators |-> TRUE, estimators |-> <<TreeObject(t)>>, self |-> NoTreeObject,
      has_proba |-> TRUE, proba_raises |-> FALSE, proba |-> Fin(3, 4)] : t \in TreeStructs}
    \cup {[has_estimators |-> TRUE, estimators |-> <<>>, self |-> NoTreeObject,
           has_proba |-> TRUE, proba_raises |-> FALSE, proba |-> Fin(3, 4)]}
    \cup {[has_estimators |-> FALSE, estimators |-> <<>>, self |-> NoTreeObject,
           has_proba |-> hp, proba_raises |-> pr, proba |-> Fin(3, 4)] :
                hp \in BOOLEAN, pr \in BOOLEAN}

TraceTree ==
    /\ \E model \in TreeModels, row \in TreeRows :
            ret' = TraceRet("trace_tree", model, row, TraceFeatures,
                            TraceTreePath(model, row, TraceFeatures))
    /\ UNCHANGED <<cacheVars, models, explainers, background_data, keyVars, calls, appVars>>

(***************************************************************************)
(* main.trace_ensemble                                                     *)
(*                                                                         *)
(* The handler reads the feature list and the pipeline of the requested    *)
(* family from the model manager; either may be missing.  Every exception  *)
(* raised in its body, its own HTTPException(400) included, is caught by   *)
(* the handler's except clause and raised again with status 500.  A staged *)
(* probability is known by its log-odds log(p / (1 - p + 1e-10)), which is *)
(* -inf for p = 0.                                                         *)
(***************************************************************************)

\* The names bound at module level by the imports of main.py: xgb is none
XgbImported == FALSE

\* x - y
Sub(x, y) ==
    Add(x, CASE y.k = "fin" -> Fin(-y.n, y.d)
             [] y.k = "inf" -> NegInf
             [] y.k = "-inf" -> PosInf
             [] OTHER -> NaN)

\* Lines 557-563: the increments of the cumulative logit, prev_logit = 0.0 first
RECURSIVE StagedIncrements(_, _)
StagedIncrements(staged, prev_logit) ==
    IF staged = <<>> THEN <<>>
    ELSE <<Sub(Head(staged), prev_logit)>> \o StagedIncrements(Tail(staged), Head(staged))

\* An Optional field of the response
Some(v) == [some |-> TRUE, v |-> v]
Nothing == [some |-> FALSE, v |-> <<>>]

\* if request.row: a missing row and an empty one are both false
RowGiven(row) == row.has /\ row.cols # <<>>

\* Lines 553-567: the breakdown from staged_predict_proba, or the mean margin
MarginBreakdown(model) ==
    IF model.has_staged
    THEN [per_tree |-> Some(StagedIncrements(model.staged, Zero)),
          final_margin |-> IF model.staged = <<>> THEN Zero
                           ELSE model.staged[Len(model.staged)]]
    ELSE [per_tree |-> Nothing, final_margin |-> model.margin]

EnsembleResponse(model, num_trees, per_tree, final_margin, final_proba) ==
    [status |-> 200, model |-> model, num_trees |-> num_trees, per_tree |-> per_tree,
     final_margin |-> final_margin, final_proba |-> final_proba]

\* Lines 570-572: raise HTTPException(status_code=500, detail=str(e))
EnsembleError ==
    [status |-> 500, model |-> <<>>, num_trees |-> 0, per_tree |-> Nothing,
     final_margin |-> Nothing, final_proba |-> Nothing]

\* Lines 520-534: the bagging family
EnsembleRf(model, row) ==
    IF RowGiven(row)
    THEN EnsembleResponse(M_rf, Len(model.estimators), Some(model.estimators), Nothing,
                          Some(DivInt(SumSeq(model.estimators), Len(model.estimators))))
    ELSE EnsembleResponse(M_rf, Len(model.estimators), Nothing, Nothing, Nothing)

\* Lines 536-568: the boosting family
EnsembleXgb(model, row) ==
    IF RowGiven(row)
    THEN IF ~XgbImported THEN EnsembleError
         ELSE LET b == MarginBreakdown(model)
              IN  EnsembleResponse(M_xgb, model.num_trees, b.per_tree, Some(b.final_margin),
                                   Some(Sigmoid(b.final_margin)))
    ELSE EnsembleResponse(M_xgb, model.num_trees, Nothing, Nothing, Nothing)

\* trace_ensemble(request)
TraceEnsembleHandler(request, trained, model) ==
    IF request.model \notin {M_rf, M_xgb} THEN EnsembleError
    ELSE IF ~trained THEN EnsembleError
    ELSE IF request.model = M_rf THEN EnsembleRf(model, request.row)
    ELSE EnsembleXgb(model, request.row)

\* Bounded inputs of the ensemble trace
EnsembleRows ==
    {[has |-> FALSE, cols |-> <<>>], [has |-> TRUE, cols |-> <<>>],
     [has |-> TRUE, cols |-> << <<F_a, Fin(1, 1)>>, <<F_b, Fin(2, 1)>> >>]}
EnsembleRequests ==
    {[model |-> m, row |-> r] : m \in {M_rf, M_xgb, M_logistic}, r \in EnsembleRows}
StagedLogits == {Fin(1, 2), Fin(-3, 1), NegInf}
EnsembleModels(model_type) ==
    IF model_type = M_xgb
    THEN {[num_trees |-> 2, has_staged |-> FALSE, staged |-> <<>>, margin |-> Fin(-3, 1)]}
         \cup {[num_trees |-> 2, has_staged |-> TRUE, staged |-> <<l1, l2>>, margin |-> l2] :
                    l1 \in StagedLogits, l2 \in StagedLogits}
    ELSE {[estimators |-> e] :
            e \in {<<>>, <<Fin(1, 4)>>, <<Fin(1, 4), Fin(3, 4)>>, <<Fin(1, 1), Zero>>}}

TraceEnsemble ==
    /\ \E request \in EnsembleRequests, trained \in BOOLEAN :
       \E model \in EnsembleModels(request.model) :
       \E response \in {TraceEnsembleHandler(request, trained, model)} :
            ret' = [op |-> "trace_ensemble", request |-> request, trained |-> trained,
                    model |-> model, raised |-> response.status # 200,
                    response |-> response]
    /\ UNCHANGED <<cacheVars, models, explainers, background_data, keyVars, calls, appVars>>

NextTrace ==
    \/ TraceLogistic
    \/ TraceTree
    \/ TraceEnsemble

SpecTrace == Init /\ [][NextTrace]_vars

\* C16: the linear forward trace returns logit = sum of feature_value *
\* coefficient plus the intercept; the reported per-feature contributions
\* sum with the reported bias to the reported logit; for a row of all-zero
\* feature values the logit is the intercept and proba is sigmoid(intercept).
C16_LinearTrace ==
    (ret.op = "trace_logistic" /\ ret.path = "computed")
        => LET layer == ret.result.layers[1]
               x == [i \in DOMAIN ret.features |->
                        ret.row[CHOOSE k \in DOMAIN ret.row : ret.row[k][1] = ret.features[i]][2]]
           IN  /\ ret.result.logit =
                    Add(Add(Mul(x[1], ret.model.coef[1]), Mul(x[2], ret.model.coef[2])),
                        ret.model.intercept)
               /\ ret.result.logit =
                    Add(SumSeq([i \in DOMAIN layer.feature_contributions |->
                                    layer.feature_contributions[i][2]]),
                        layer.b[1])
               /\ (\A i \in DOMAIN x : x[i] = Zero)
                    => /\ ret.result.logit = ret.model.intercept
                       /\ ret.result.proba = Sigmoid(ret.model.intercept)

C16_Witness ==
    /\ ret.op = "trace_logistic"
    /\ ret.path = "computed"
    /\ \A k \in DOMAIN ret.row : ret.row[k][2] = Zero
    /\ ret.result.logit = Fin(1, 4)
    /\ ret.result.proba = Sigmoid(Fin(1, 4))

\* The node reached from node_id by following the recorded directions on the
\* child arrays
RECURSIVE Replay(_, _, _)
Replay(t, directions, node_id) ==
    IF directions = <<>> \/ At(t.feature, node_id) = TREE_LEAF THEN node_id
    ELSE Replay(t, Tail(directions),
                IF Head(directions) = "left" THEN At(t.children_left, node_id)
                ELSE At(t.children_right, node_id))

Directions(path_nodes) ==
    LET internal == SelectSeq(path_nodes, LAMBDA n : ~n.is_leaf)
    IN  [i \in DOMAIN internal |-> internal[i].direction]

\* C17: replaying the directions of the emitted internal nodes on the tree's
\* child arrays, from the root, ends at the leaf that the tree's own
\* classification routine returns for the row.
C17_ReplayReachesLeaf ==
    (ret.op = "trace_tree" /\ ret.path = "walked")
        => LET t == ret.model.estimators[1].tree_
               X == RowValues(ret.row, ret.features).x
           IN  Replay(t, Directions(ret.result.path), 0) = TreeApply(t, X, 0)

\* C18: the decision-path tracer never raises; for a model without
\* path-walking capability it returns exactly one synthetic leaf of value
\* 0.5 with the model's own probability (0.5 when it has none), and on a
\* failure (an ensemble with zero members included) an empty path with
\* prediction 0.5.
C18_TreePathDegrades ==
    ret.op = "trace_tree"
        => /\ ~ret.raised
           /\ ret.path = "synthetic"
                => /\ Len(ret.result.path) = 1
                   /\ ret.result.path[1].is_leaf
                   /\ ret.result.path[1].leaf_value = Fin(1, 2)
                   /\ ret.result.prediction =
                        IF ret.model.has_proba THEN ret.model.proba ELSE Fin(1, 2)
           /\ ret.path = "failed"
                => /\ ret.result.path = <<>>
                   /\ ret.result.prediction = Fin(1, 2)
           /\ (ret.model.has_estimators /\ ret.model.estimators = <<>>) => ret.path = "failed"
           /\ (~ret.model.has_estimators /\ ~ret.model.self.has_decision_path
                    /\ ~(ret.model.has_proba /\ ret.model.proba_raises)
                    /\ Len(ret.row) = Len(ret.features))
                => ret.path = "synthetic"

C18_Witness ==
    /\ ret.op = "trace_tree"
    /\ ret.path = "failed"
    /\ ret.model.has_estimators
    /\ ret.model.estimators = <<>>
    /\ Len(ret.row) = 2

C20_MemberCountReported ==
    (ret.op = "trace_ensemble" /\ ret.request.model = M_xgb /\ ret.trained)
        => /\ ret.response.status = 200
           /\ ret.response.num_trees = ret.model.num_trees

(***************************************************************************)
(* The attribution engine between calls: the handles and the background    *)
(* sample it keeps, under global and local attribution, dependence, a      *)
(* trace and retraining                                                    *)
(***************************************************************************)

StateEnv ==
    [cells |-> {Fin(-1, 1)}, imps |-> {Fin(1, 1)},
     evs |-> {[has |-> FALSE, seq |-> FALSE, vals |-> <<>>]},
     faults |-> {"none"}]
StateLocalEnv ==
    [cells |-> {Fin(1, 4)}, evs |-> {[has |-> FALSE, seq |-> FALSE, vals |-> <<>>]}]
StateLocalFamilies == {M_rf, M_mlp}

EngineShapSummary ==
    \E model_type \in TrainFamilies, features \in EngineFeatureLists,
       rows \in 1..MaxRows, max_samples \in EngineMaxSamples :
        /\ ComputeShapSummary(StateEnv, model_type, GetModel(models, model_type),
                              FeatureMatrix(rows, features), features, max_samples)
        /\ UNCHANGED <<now, last, models, keyVars, calls, appVars>>

EngineShapLocal ==
    \E model_type \in StateLocalFamilies :
    \E model \in LocalModels(model_type) :
        /\ ComputeShapLocal(StateLocalEnv, model_type, model, FeatureMatrix(1, ExplainFeatures),
                            ExplainFeatures)
        /\ UNCHANGED <<cacheVars, models, keyVars, calls, appVars>>

EnginePdp ==
    \E model_type \in TrainFamilies :
        /\ ComputePdp(model_type, PdpFeatures, <<F_a>>, 2)
        /\ UNCHANGED <<now, last, models, explainers, background_data, keyVars, calls, appVars>>

EngineTrace ==
    /\ \E model \in {[has_coef |-> TRUE, coef |-> <<Fin(3, 1), Fin(-1, 2)>>,
                       intercept |-> Fin(1, 4)]},
          row \in {<< <<F_a, Zero>>, <<F_b, Fin(1, 2)>> >>} :
            ret' = TraceRet("trace_logistic", model, row, TraceFeatures,
                            TraceLogisticForward(model, row, TraceFeatures))
    /\ UNCHANGED <<cacheVars, models, explainers, background_data, keyVars, calls, appVars>>

NextEngine ==
    \/ EngineShapSummary
    \/ EngineShapLocal
    \/ EnginePdp
    \/ EngineTrace
    \/ \E model_type \in TrainFamilies : Retrain(model_type)

SpecEngine == Init /\ [][NextEngine]_vars

(***************************************************************************)
(* Claims about the state the attribution engine keeps between calls       *)
(***************************************************************************)

NSamples(r) == r.params[3][2].v

C22_HandleBuiltOnce ==
    [][ ret'.op = "shap_local" =>
          /\ ret'.built => /\ ret'.model_type \notin DOMAIN explainers
                           /\ ret'.model_type \in DOMAIN explainers'
                           /\ explainers'[ret'.model_type] = ret'.explainer
          /\ ret'.model_type \in DOMAIN explainers
                => /\ ~ret'.built
                   /\ ret'.explainer = explainers[ret'.model_type]
                   /\ explainers' = explainers
          /\ \A f \in DOMAIN explainers :
                f # ret'.model_type
                    => f \in DOMAIN explainers' /\ explainers'[f] = explainers[f] ]_vars

\* A local call that reused the handle an earlier local call had constructed,
\* while a handle of another family is stored
C22_Witness ==
    /\ ret.op = "shap_local"
    /\ ret.path = "computed"
    /\ ~ret.built
    /\ ret.explainer.by = "shap_local"
    /\ ret.model_type = M_mlp
    /\ M_rf \in DOMAIN explainers

\* C23: retraining a family invalidates the handle stored for it, so that a
\* local-attribution call never uses a handle that was constructed for an
\* earlier model of the family than the current one.
C23_NoStaleHandle ==
    (ret.op = "shap_local" /\ ret.explainer # NoExplainer)
        => ret.explainer.model = GetModel(models, ret.model_type)

(***************************************************************************)
(* Dependence called with different grid sizes                             *)
(***************************************************************************)

GridSizes == {2, 3}
GridTargets == {<<F_a>>, <<F_a, F_b>>, <<F_c, F_b>>}

GridPdp ==
    \E model_type \in TrainFamilies, target_features \in GridTargets, grid_size \in GridSizes :
        /\ ComputePdp(model_type, PdpFeatures, target_features, grid_size)
        /\ UNCHANGED <<now, last, models, explainers, background_data, keyVars, calls, appVars>>

NextGrid ==
    \/ GridPdp
    \/ EngineTick

SpecGrid == Init /\ [][NextGrid]_vars

\* C24: every curve a dependence call returns has a grid of the grid_size
\* given in that call (the feature has at least that many distinct values)
\* and as many values as grid points, whatever dependence calls were made
\* before it.
C24_GridOfRequestedSize ==
    (ret.op = "pdp" /\ ret.path \in {"computed", "hit"})
        => \A i \in DOMAIN ret.result :
                /\ Len(ret.result[i][2].grid) = ret.grid_size
                /\ Len(ret.result[i][2].values) = Len(ret.result[i][2].grid)

(***************************************************************************)
(* TraceManager.trace_mlp_forward                                          *)
(*                                                                         *)
(* The network is the sequence model.layers; a layer is known by what      *)
(* get_weights() returns (a weight matrix and a bias for a dense layer,    *)
(* nothing for a dropout layer) and by the name of its activation.  A      *)
(* weight matrix is a sequence of rows, one per input.  Hidden activations *)
(* of the bounded networks are relu or one the trace does not recognize;   *)
(* sigmoid, kept symbolic, is the activation of output layers.             *)
(***************************************************************************)

\* model_dict["imputer"].transform(X): the fitted statistic for a missing value
Impute(x, statistics) ==
    [i \in DOMAIN x |-> IF x[i].k = "nan" THEN statistics[i] ELSE x[i]]

\* model_dict["scaler"].transform(X_imp) if a scaler is configured
Scale(x, scaler) ==
    IF ~scaler.has THEN x
    ELSE [i \in DOMAIN x |-> DivInt(Sub(x[i], scaler.mean[i]), scaler.scale[i])]

\* len(weights) == 2
IsDense(layer) == Len(layer.weights) = 2

\* z = np.dot(current_input, W) + b
PreActivation(current_input, W, b) ==
    [j \in DOMAIN b |->
        Add(SumSeq([i \in DOMAIN current_input |-> Mul(current_input[i], W[i][j])]), b[j])]

\* relu, sigmoid, or z itself for any other activation
Activation(name, z) ==
    [j \in DOMAIN z |->
        CASE name = "relu" -> (IF Less(z[j], Zero) THEN Zero ELSE z[j])
          [] name = "sigmoid" -> Sigmoid(z[j])
          [] OTHER -> z[j]]

\* W.tolist() if W.size < 1000 else None
TraceWeights(W) ==
    IF Len(W) * (IF W = <<>> THEN 0 ELSE Len(W[1])) < 1000 THEN Some(W) ELSE Nothing

LayerTrace(W, b, z, a) == [type |-> "dense", W |-> TraceWeights(W), b |-> b, z |-> z, a |-> a]

\* current_input = a
NextInputPreActivation(z, a) == z

NextInput(z, a) == a

\* The loop over model.layers from position i on
RECURSIVE MlpLoop(_, _, _, _)
MlpLoop(layers, i, current_input, layers_trace) ==
    IF i > Len(layers) THEN [current_input |-> current_input, layers_trace |-> layers_trace]
    ELSE IF ~IsDense(layers[i]) THEN MlpLoop(layers, i + 1, current_input, layers_trace)
    ELSE LET W == layers[i].weights[1]
             b == layers[i].weights[2]
             z == PreActivation(current_input, W, b)
             a == Activation(layers[i].activation, z)
         IN  MlpLoop(layers, i + 1, NextInput(z, a),
                     Append(layers_trace, LayerTrace(W, b, z, a)))

\* final_output < 0 or final_output > 1, then through the sigmoid
MlpProba(final_output) ==
    IF final_output.k = "sigmoid" THEN final_output
    ELSE IF Less(final_output, Zero) \/ Less(Fin(1, 1), final_output) THEN Sigmoid(final_output)
    ELSE final_output

\* np.log(proba / (1 - proba + 1e-10)), kept symbolic
LogOdds(proba) == [k |-> "logodds", of |-> proba]

\* trace_mlp_forward(model_dict, row, features)
TraceMlpForward(model_dict, row, features) ==
    LET rv == RowValues(row, features)
        X_scaled == Scale(Impute(rv.x, model_dict.imputer), model_dict.scaler)
        loop == MlpLoop(model_dict.model, 1, X_scaled, <<>>)
        proba == MlpProba(loop.current_input[1])
    IN  IF rv.raised THEN [path |-> "failed", result |-> ForwardFallback]
        ELSE [path |-> "computed",
              result |-> ForwardResult(loop.layers_trace, LogOdds(proba), proba)]

\* Bounded inputs of the feed-forward trace
Dense(W, b, activation) == [weights |-> <<W, b>>, activation |-> activation]
Dropout == [weights |-> <<>>, activation |-> "none"]
MlpNetworks ==
    { <<Dense(<< <<Fin(1, 1), Fin(-1, 1)>>, <<Fin(1, 2), Fin(2, 1)>> >>, <<Zero, Fin(1, 1)>>, "relu"),
        Dropout,
        Dense(<< <<Fin(1, 1)>>, <<Fin(-3, 1)>> >>, <<Fin(1, 4)>>, "sigmoid")>>,
      <<Dropout,
        Dense(<< <<Fin(2, 1), Fin(-1, 1)>>, <<Fin(-1, 1), Fin(1, 1)>> >>, <<Fin(-1, 1), Zero>>, "tanh"),
        Dense(<< <<Fin(1, 1)>>, <<Fin(1, 1)>> >>, <<Fin(1, 2)>>, "relu"),
        Dropout>>,
      <<Dense(<< <<Fin(-1, 1)>>, <<Fin(1, 1)>> >>, <<Zero>>, "relu")>>,
      <<Dropout>> }
MlpScalers ==
    { [has |-> FALSE, mean |-> <<>>, scale |-> <<>>],
      [has |-> TRUE, mean |-> <<Fin(1, 1), Zero>>, scale |-> <<2, 1>>] }
MlpModels ==
    {[model |-> net, imputer |-> <<Fin(1, 1), Fin(1, 2)>>, scaler |-> sc] :
        net \in MlpNetworks, sc \in MlpScalers}
MlpValues == {Zero, Fin(3, 1), Fin(-2, 1), NaN}
MlpRows ==
    {<< <<F_a, va>>, <<F_b, vb>> >> : va \in MlpValues, vb \in MlpValues}
    \cup {<< <<F_a, Zero>> >>}

TraceMlp ==
    /\ \E model_dict \in MlpModels, row \in MlpRows :
            ret' = TraceRet("trace_mlp", model_dict, row, TraceFeatures,
                            TraceMlpForward(model_dict, row, TraceFeatures))
    /\ UNCHANGED <<cacheVars, models, explainers, background_data, keyVars, calls, appVars>>

NextMlp == TraceMlp

SpecMlp == Init /\ [][NextMlp]_vars

\* The layers of a network that have a weight matrix and a bias, in model order
RECURSIVE DenseLayers(_)
DenseLayers(layers) ==
    IF layers = <<>> THEN <<>>
    ELSE IF IsDense(Head(layers)) THEN <<Head(layers)>> \o DenseLayers(Tail(layers))
    ELSE DenseLayers(Tail(layers))

\* The row as the network receives it
Preprocessed(r) ==
    Scale(Impute(RowValues(r.row, r.features).x, r.model.imputer), r.model.scaler)

\* C25: the feed-forward trace has exactly one layer record per layer with a
\* weight matrix and a bias, in model order; the first is computed from the
\* imputed (and, if configured, scaled) row, each later one from the
\* post-activation of the record before it; layers without such a pair are
\* skipped and change nothing; the value the trace ends with is the
\* post-activation of the last record.
C25_SequentialLayers ==
    (ret.op = "trace_mlp" /\ ret.path = "computed")
        => LET dense == DenseLayers(ret.model.model)
               out == ret.result.layers
           IN  /\ Len(out) = Len(dense)
               /\ \A k \in DOMAIN out :
                    LET input == IF k = 1 THEN Preprocessed(ret) ELSE out[k - 1].a
                    IN  /\ out[k].b = dense[k].weights[2]
                        /\ out[k].z = PreActivation(input, dense[k].weights[1],
                                                    dense[k].weights[2])
                        /\ out[k].a = Activation(dense[k].activation, out[k].z)
               /\ ret.result.proba =
                        MlpProba(IF out = <<>> THEN Preprocessed(ret)[1]
                                 ELSE out[Len(out)].a[1])

\* A trace through a network that starts and ends with a skipped layer and
\* has two dense layers, on a row with a missing value, scaled
C25_Witness ==
    /\ ret.op = "trace_mlp"
    /\ ret.path = "computed"
    /\ Len(ret.model.model) = 4
    /\ Len(ret.result.layers) = 2
    /\ ret.model.scaler.has
    /\ \E k \in DOMAIN ret.row : ret.row[k][2] = NaN
    /\ ret.result.layers[1].a # ret.result.layers[1].z
        \/ ret.result.layers[2].a # ret.result.layers[2].z

(***************************************************************************)
(* Further claims about local attribution (checked under SpecExplain)      *)
(***************************************************************************)

\* C26: the record local attribution returns holds no non-finite number:
\* every contribution, the base value and the prediction are finite, a
\* non-finite value reported by the explainer having been replaced by zero.
C26_LocalRecordFinite ==
    ret.op = "shap_local"
        => /\ \A i \in DOMAIN ret.result.shap_values : IsFinite(ret.result.shap_values[i][2])
           /\ IsFinite(ret.result.base_value)
           /\ IsFinite(ret.result.prediction) \/ ret.result.prediction.k = "sigmoid"

(***************************************************************************)
(* Concurrent callers of the cache manager on one key                      *)
(*                                                                         *)
(* Two callers run without a lock (several worker processes share          *)
(* CACHE_DIR).  A caller either makes an engine call (get, and on a miss   *)
(* compute and set) or invalidates the key.  Each file-system call is one  *)
(* step: exists, unlink, opening a file for writing (which truncates it),  *)
(* the write that fills it when it is closed, a read.  The two callers     *)
(* write equivalent payloads, so their payload bytes are the same; the     *)
(* metadata text holds time.time(), whose shortest decimal form varies in  *)
(* length, so a shorter text written over a longer one leaves the tail of  *)
(* the longer one behind.                                                  *)
(***************************************************************************)

RaceCall == Call(<<"x">>, << <<N_k, IntVal(1)>> >>)
RacePayload == "d1"
RaceOps == {"call", "invalidate"}
MetaLengths == {1, 2}

cache_path == CachePath(CacheKey(RaceCall.prefix, RaceCall.kwargs), Joblib)
meta_path == CachePath(CacheKey(RaceCall.prefix, RaceCall.kwargs), Meta)

\* A file just opened for writing; a metadata text of n characters; what is
\* left when a text of n characters is written from offset 0 into a file
\* holding a longer one
Truncated == [ok |-> FALSE, data |-> None, timestamp |-> 0, prefix |-> <<>>, kwargs |-> <<>>,
              len |-> 0]
MetaText(t, n) ==
    [ok |-> TRUE, data |-> None, timestamp |-> t, prefix |-> RaceCall.prefix,
     kwargs |-> RaceCall.kwargs, len |-> n]
WriteOver(old, t, n) ==
    IF old.len > n THEN [Truncated EXCEPT !.len = old.len] ELSE MetaText(t, n)

Go(p, pc) == calls' = [calls EXCEPT ![p].pc = pc]
Return(p, res) == calls' = [calls EXCEPT ![p].pc = "done", ![p].res = res]

\* A caller enters the cache manager
Start(p) ==
    /\ calls[p].pc \in {"idle", "done"}
    /\ \E op \in RaceOps :
            calls' = [calls EXCEPT ![p] = [Idle EXCEPT !.op = op,
                                                      !.pc = IF op = "call" THEN "get_payload_exists"
                                                             ELSE "unlink_payload_exists"]]
    /\ UNCHANGED files

\* get: not cache_path.exists()
GetPayloadExists(p) ==
    /\ calls[p].pc = "get_payload_exists"
    /\ IF Exists(files, cache_path) THEN Go(p, "get_meta_exists") ELSE Go(p, "dump_open")
    /\ UNCHANGED files

\* get: not meta_path.exists()
GetMetaExists(p) ==
    /\ calls[p].pc = "get_meta_exists"
    /\ IF Exists(files, meta_path) THEN Go(p, "get_read_meta") ELSE Go(p, "dump_open")
    /\ UNCHANGED files

\* get: json.load(f) and the expiry test; a vanished or unparseable file
\* raises, which get answers with None
GetReadMeta(p) ==
    /\ calls[p].pc = "get_read_meta"
    /\ IF ~Exists(files, meta_path) \/ ~files[meta_path].ok THEN Go(p, "dump_open")
       ELSE IF Expired(now, files[meta_path]) THEN Go(p, "unlink_payload_exists")
       ELSE Go(p, "get_load")
    /\ UNCHANGED files

\* get: joblib.load(cache_path)
GetLoad(p) ==
    /\ calls[p].pc = "get_load"
    /\ IF Exists(files, cache_path) /\ files[cache_path].ok THEN Return(p, "hit")
       ELSE Go(p, "dump_open")
    /\ UNCHANGED files

\* invalidate: if path.exists(), for the payload file and then the metadata
\* file
UnlinkExists(p, path, unlink, next) ==
    /\ IF Exists(files, path) THEN Go(p, unlink)
       ELSE IF next = "done" /\ calls[p].op = "call" THEN Go(p, "dump_open")
       ELSE IF next = "done" THEN Return(p, "none")
       ELSE Go(p, next)
    /\ UNCHANGED files

\* invalidate: path.unlink(); FileNotFoundError if the other caller removed
\* the file meanwhile, which get answers with None and invalidate lets
\* through to its caller
UnlinkPath(p, path, next) ==
    IF Exists(files, path)
    THEN /\ files' = Unlink(files, {path})
         /\ IF next = "done" /\ calls[p].op = "call" THEN Go(p, "dump_open")
            ELSE IF next = "done" THEN Return(p, "none")
            ELSE Go(p, next)
    ELSE /\ UNCHANGED files
         /\ IF calls[p].op = "call" THEN Go(p, "dump_open")
            ELSE calls' = [calls EXCEPT ![p].pc = "done", ![p].raised = TRUE]

UnlinkPayloadExists(p) ==
    /\ calls[p].pc = "unlink_payload_exists"
    /\ UnlinkExists(p, cache_path, "unlink_payload", "unlink_meta_exists")

UnlinkPayload(p) ==
    /\ calls[p].pc = "unlink_payload"
    /\ UnlinkPath(p, cache_path, "unlink_meta_exists")

UnlinkMetaExists(p) ==
    /\ calls[p].pc = "unlink_meta_exists"
    /\ UnlinkExists(p, meta_path, "unlink_meta", "done")

UnlinkMeta(p) ==
    /\ calls[p].pc = "unlink_meta"
    /\ UnlinkPath(p, meta_path, "done")

\* set: joblib.dump(data, cache_path) opens the payload file
DumpOpen(p) ==
    /\ calls[p].pc = "dump_open"
    /\ files' = Write(files, cache_path, Truncated)
    /\ Go(p, "dump_write")

\* set: joblib.dump writes the payload (into a file nobody can open any more
\* if the other caller unlinked it meanwhile); meta = {'timestamp':
\* time.time(), ...}
DumpWrite(p) ==
    /\ calls[p].pc = "dump_write"
    /\ files' = IF Exists(files, cache_path) THEN Write(files, cache_path, PayloadFile(RacePayload))
                ELSE files
    /\ \E n \in MetaLengths :
            calls' = [calls EXCEPT ![p].pc = "meta_open", ![p].time = now, ![p].len = n]

\* set: open(meta_path, 'w')
MetaOpen(p) ==
    /\ calls[p].pc = "meta_open"
    /\ files' = Write(files, meta_path, Truncated)
    /\ Go(p, "meta_write")

\* set: json.dump(meta, f), written out when the file is closed
MetaWrite(p) ==
    /\ calls[p].pc = "meta_write"
    /\ files' = IF Exists(files, meta_path)
                THEN Write(files, meta_path,
                           WriteOver(files[meta_path], calls[p].time, calls[p].len))
                ELSE files
    /\ calls' = [calls EXCEPT ![p].pc = "done", ![p].res = "miss", ![p].wrote = TRUE]

RaceStep(p) ==
    \/ Start(p)
    \/ GetPayloadExists(p)
    \/ GetMetaExists(p)
    \/ GetReadMeta(p)
    \/ GetLoad(p)
    \/ UnlinkPayloadExists(p)
    \/ UnlinkPayload(p)
    \/ UnlinkMetaExists(p)
    \/ UnlinkMeta(p)
    \/ DumpOpen(p)
    \/ DumpWrite(p)
    \/ MetaOpen(p)
    \/ MetaWrite(p)

RaceTick ==
    /\ \E d \in EngineTickSteps : now + d <= MaxTime /\ now' = now + d
    /\ UNCHANGED <<files, calls>>

NextRace ==
    \/ \E p \in Procs : RaceStep(p) /\ UNCHANGED <<now, last, engineVars, keyVars, appVars>>
    \/ RaceTick /\ UNCHANGED <<last, engineVars, keyVars, appVars>>

SpecRace == Init /\ [][NextRace]_vars

\* Both callers have come back from an engine call in which they missed and
\* stored their result, and neither timestamp is older than the lifetime
BothStored ==
    \A p \in Procs :
        /\ calls[p].pc = "done"
        /\ calls[p].op = "call"
        /\ calls[p].wrote
        /\ now - calls[p].time <= CACHE_TTL

\* C27: once two concurrent callers that both missed have both finished
\* their set, a get for the key made within the lifetime returns the payload
C27_ReuseAfterConcurrentSets ==
    BothStored =>
        Get(files, now, RaceCall.prefix, RaceCall.kwargs).res = Hit(RacePayload)

\* No caller is inside get, set or invalidate
Quiescent == \A p \in Procs : calls[p].pc \in {"idle", "done"}

\* C29: whenever no cache operation is in progress, the key has both its
\* payload and its metadata stored or neither of them
C29_BothFilesOrNeither ==
    Quiescent => (Exists(files, cache_path) <=> Exists(files, meta_path))

(***************************************************************************)
(* Failing engine calls and the cache: global attribution and dependence   *)
(* with explainers that may raise, over entries that may have expired      *)
(***************************************************************************)

NextFail ==
    \/ EngineShapSummary
    \/ EnginePdp
    \/ EngineTick

SpecFail == Init /\ [][NextFail]_vars

\* The call that has just returned ended in a fallback (global attribution)
\* or in the empty failure mapping (dependence)
Failed(r) ==
    \/ r.op = "shap_summary" /\ r.path \in {"structural", "zero"}
    \/ r.op = "pdp" /\ r.path = "failed"

FailedPrefix(r) == IF r.op = "pdp" THEN S_pdp ELSE S_shap_summary

\* Every file of f is a file of g with the same content
SubCache(f, g) == \A path \in DOMAIN f : path \in DOMAIN g /\ f[path] = g[path]

\* C28 as stated: a call that ends in a fallback or in the empty failure
\* mapping leaves the cache files exactly as they were
C28_FailureLeavesCacheUnchanged == [][Failed(ret') => files' = files]_vars

\* C28, amended: a call that ends in a fallback or in the empty failure
\* mapping adds nothing to the cache and changes no file (the only change it
\* can make is the removal of files, which its lookup does to an expired
\* entry of the same key), and a lookup of the same key right after it
\* misses, so the next call with the same arguments recomputes
C28_FailureAddsNothing ==
    [][Failed(ret') =>
            /\ SubCache(files', files)
            /\ ~Get(files', now', FailedPrefix(ret'), ret'.params).res.hit]_vars

\* A dependence call has failed while the cache holds the entry of an
\* earlier successful call
C28_Witness == Failed(ret) /\ ret.op = "pdp" /\ files # <<>>

(***************************************************************************)
(* The HTTP handlers of training, prediction and tracing                   *)
(***************************************************************************)

SupportedFamilies == {M_logistic, M_rf, M_xgb, M_mlp}
RequestFamilies == {M_logistic, M_rf, M_mlp, M_svm}
RequestFeatureConfigs == {<<F_a>>, <<F_a, F_b>>}
\* Optional fields: <<>> for None, <<v>> for the value v
RequestEstimators == {<<>>, <<100>>}
RequestHiddenLayers == {<<>>, << <<4>> >>}

\* TrainRequest: model, feature_config, scale_numeric, n_estimators,
\* hidden_layers (filters, test_size and random_state only shape the split)
TrainRequests ==
    [model : RequestFamilies, feature_config : RequestFeatureConfigs, scale_numeric : BOOLEAN,
     n_estimators : RequestEstimators, hidden_layers : RequestHiddenLayers]

\* What a handler answered: the status code, and whether the request was
\* turned down because the family had no registered feature list
HandlerRet(op, model_type, request, status, not_trained) ==
    [op |-> op, model_type |-> model_type, request |-> request, status |-> status,
     not_trained |-> not_trained]

\* Binding positional arguments to the parameters of a method: TypeError
\* when more are passed than the method has parameters, or fewer than it
\* requires
Bind(nparams, nrequired, args) == [raised |-> Len(args) > nparams \/ Len(args) < nrequired]

\* def train_model(self, model_type, X_train, X_test, y_train, y_test,
\* features, scale=True): seven parameters after self, six required
TrainModelParams == 7
TrainModelRequired == 6

\* ModelManager.train_model called with the positional arguments args: the
\* call fails if they cannot be bound or the family is unknown; otherwise
\* the model and its feature list are stored
ModelManagerTrainModel(ms, fc, args) ==
    IF Bind(TrainModelParams, TrainModelRequired, args).raised
    THEN [raised |-> TRUE, models |-> ms, feature_configs |-> fc]
    ELSE IF args[1] \notin SupportedFamilies
    THEN [raised |-> TRUE, models |-> ms, feature_configs |-> fc]
    ELSE [raised |-> FALSE,
          models |-> (args[1] :> (GetModel(ms, args[1]) + 1)) @@ ms,
          feature_configs |-> StoreFeatures(fc, args[1], args[6])]

\* The arguments the train handler passes to model_manager.train_model
TrainArgs(request) ==
    <<request.model, "X_train", "X_test", "y_train", "y_test", request.feature_config,
      request.scale_numeric, request.n_estimators, request.hidden_layers>>

\* POST /api/data/load
LoadData ==
    /\ \E found \in BOOLEAN :
            /\ df' = (df \/ found)
            /\ ret' = HandlerRet("load", <<>>, <<>>, IF found THEN 200 ELSE 404, FALSE)
    /\ UNCHANGED <<cacheVars, models, explainers, background_data, keyVars, calls,
                   feature_configs>>

\* POST /api/train: every exception, the HTTPException for a missing
\* dataset included, is answered with status 500
TrainModel ==
    \E request \in TrainRequests :
        /\ GetModel(models, request.model) < MaxGen
        /\ IF ~df
           THEN /\ ret' = HandlerRet("train", request.model, <<request>>, 500, FALSE)
                /\ UNCHANGED <<files, models, feature_configs>>
           ELSE \E trained \in {ModelManagerTrainModel(models, feature_configs,
                                                        TrainArgs(request))} :
                    /\ models' = trained.models
                    /\ feature_configs' = trained.feature_configs
                    /\ files' = IF trained.raised THEN files
                                ELSE PostTrainInvalidation(files, request.model)
                    /\ ret' = HandlerRet("train", request.model, <<request>>,
                                         IF trained.raised THEN 500 ELSE 200, FALSE)
        /\ UNCHANGED <<now, last, explainers, background_data, keyVars, calls, df>>

\* features = model_manager.feature_configs.get(request.model)
\* if not features: raise HTTPException(400, "Model ... not trained")
NotTrained(fc, model_type) == model_type \notin DOMAIN fc \/ fc[model_type] = <<>>

\* POST /api/predict, /api/trace/forward, /api/explain/pdp, each for a
\* family: turned down when the family has no feature list
RequestOps == {"predict", "trace_forward", "pdp"}

Request ==
    /\ \E op \in RequestOps, model_type \in RequestFamilies :
            ret' = IF NotTrained(feature_configs, model_type)
                   THEN HandlerRet(op, model_type, <<>>, 500, TRUE)
                   ELSE HandlerRet(op, model_type, <<>>, 200, FALSE)
    /\ UNCHANGED <<cacheVars, models, explainers, background_data, keyVars, calls, appVars>>

NextTrain ==
    \/ LoadData
    \/ TrainModel
    \/ Request

SpecTrain == Init /\ [][NextTrain]_vars

\* C30: a train request for a supported family made while a dataset is
\* loaded is answered with success and leaves the family's model and feature
\* list registered, so that later requests for the family are not turned
\* down as not trained
C30_TrainRegistersModel ==
    [][(df /\ ret'.op = "train" /\ ret'.model_type \in SupportedFamilies) =>
            /\ ret'.status = 200
            /\ GetModel(models', ret'.model_type) > 0
            /\ ~NotTrained(feature_configs', ret'.model_type)]_vars

====
